---- MODULE Spec2Model ----
(***************************************************************************)
(* A model of nixup's core: the store records, the deduplicators, the      *)
(* global-dependency partitioner and the diff engine.                      *)
(*                                                                         *)
(* Two generations of the record type live in the sources:                 *)
(*   - StorePath (src/src/store.rs): a name and a version; a suffix found  *)
(*     by the parser is folded into the name as  name|suffix .  Equality   *)
(*     and hashing use the name alone.  The partitioner and the diff       *)
(*     engine are written over StorePath.                                  *)
(*   - Store (src/src/store/mod.rs): name, version, an optional suffix     *)
(*     kept in a field of its own and a registration time.  Equality and   *)
(*     hashing use the name alone.  The deduplicator Store::get_unique is  *)
(*     written over Store.                                                 *)
(*                                                                         *)
(* An Option<T> is a sequence of length at most one; a HashSet of records  *)
(* is a set of records; the iteration order of a hash collection is a      *)
(* nondeterministic choice.                                                *)
(***************************************************************************)
EXTENDS Integers, Sequences, FiniteSets, TLC

VARIABLES
    pc,            \* position of the operation under way
    \* ---- partitioner (isolate_global_dependencies / remove_global_deps)
    input_pkgs,    \* the package map as it was handed to the partitioner
    pkgs,          \* the package map, mutated in place
    ver_tracker,   \* dependency name -> DependencyScan
    scanned,       \* packages the scan loop has visited
    dep_names,     \* names to extract, fixed after the scan
    folded,        \* packages the removal fold has visited
    acc,           \* worker -> accumulator of the fold
    merged,        \* workers whose accumulator was merged into another one
    global_deps,   \* the returned shared set
    \* ---- diff engine
    new_stores, old_stores,   \* inputs of get_store_diffs
    diff_new, diff_old,       \* inputs of the last get_store_diff
    store_diff,               \* result of the last get_store_diff
    store_diffs,              \* result of get_store_diffs
    new_pkgs, old_pkgs,       \* inputs of get_package_diffs
    pkg_diffs,                \* result of get_package_diffs
    \* ---- deduplicators
    db_rows,       \* parsed rows handed to Store::get_unique, newest first
    row_idx,       \* number of rows get_unique has consumed
    unique,        \* get_unique's `unique`
    duplicates,    \* get_unique's `duplicates`
    listing,       \* parsed lines of a command's output (None: unparsable)
    list_op,       \* which command-output loop ran
    stores,        \* the set built from the listing
    nix_cut,       \* where the last "/nix/" of the output lies, if anywhere
    self_path,     \* self.path.path of the package parse_deps is called on
    cmd_outcome,   \* how the command and its output turn out
    list_result,   \* what the command-output loop returned
    \* ---- dependency set builder
    build_op,      \* which builder runs
    build_stores,  \* the top-level stores packages are built for
    lookup,        \* store -> the answer of its closure lookup (None: failed)
    built,         \* top-level stores the builder has visited
    packages,      \* parse_system_packages' map under construction
    derivations,   \* all_from_stores' set under construction
    build_result,  \* "running", "ok", "err" or "panic"
    stores_outcome,\* how parse_system_stores turns out for the builder
    \* ---- ordering of the changes
    sort_input,    \* the PackageDiffs as get_package_diffs returned them
    sorted_diffs,  \* the PackageDiffs, sorted in place
    sort_idx,      \* number of PackageDiffs the print loop has visited
    \* ---- saved state
    save_pkgs,     \* the package map handed to save_system_pkgs
    save_file,     \* the content of saved_stores.mpack (None: not written)
    loaded_pkgs,   \* the map get_saved_system_pkgs returned
    \* ---- identifier parsers
    raw_path,      \* the raw store path handed to a parser
    parse_op,      \* which parser ran
    parsed,        \* the parser's result
    \* ---- end-to-end comparison (detect_package_diff)
    new_snapshot,  \* the new package map as handed to detect_package_diff
    old_snapshot   \* the old package map as handed to detect_package_diff

partVars == <<input_pkgs, pkgs, ver_tracker, scanned, dep_names, folded, acc,
              merged, global_deps>>
diffVars == <<new_stores, old_stores, diff_new, diff_old, store_diff,
              store_diffs, new_pkgs, old_pkgs, pkg_diffs>>
uniqVars == <<db_rows, row_idx, unique, duplicates>>
listVars == <<listing, list_op, stores, nix_cut, self_path, cmd_outcome,
              list_result>>
buildVars == <<build_op, build_stores, lookup, built, packages, derivations,
               build_result, stores_outcome>>
\* the components added after the first five
sortVars == <<sort_input, sorted_diffs, sort_idx>>
saveVars == <<save_pkgs, save_file, loaded_pkgs>>
parseVars == <<raw_path, parse_op, parsed>>
cmpVars == <<new_snapshot, old_snapshot>>
extVars == <<buildVars, sortVars, saveVars, parseVars, cmpVars>>
vars == <<pc, partVars, diffVars, uniqVars, listVars, extVars>>

-----------------------------------------------------------------------------
(* Bounds of the model.                                                    *)

\* number of packages in a package map handed to the partitioner
NumPkgs == 3
\* number of rayon workers the removal fold is split over
NumWorkers == 2
\* longest row list handed to Store::get_unique
MaxRows == 3
\* registration times are 0, 1800, ..., MaxTicks * 1800
MaxTicks == 2
\* longest command-output listing
MaxListing == 3
\* most lines a closure lookup prints ahead of the queried store
MaxClosure == 2
\* most PackageDiffs handed to the sorts
MaxDiffs == 3
\* most characters of a raw path after the hash and its '-'
MaxStr == 6

-----------------------------------------------------------------------------
(* Options and names.                                                      *)

None == <<>>
Some(x) == <<x>>
IsSome(o) == o # <<>>
Unwrap(o) == o[1]

\* StorePath::parse: the name is the name fragments; a suffix is appended
\* after a '|'.  Base names never hold a '|' (it is not a store-path
\* character).
EncodeName(base, suffix) ==
    IF IsSome(suffix) THEN <<base, "|", Unwrap(suffix)>> ELSE <<base>>

BaseOf(name) == name[1]
SuffixOf(name) == IF Len(name) = 3 THEN Some(name[3]) ELSE None

AllPkgNames == <<"test1", "test2", "test3", "test4", "test5">>
PkgNames == {EncodeName(AllPkgNames[i], None) : i \in 1..NumPkgs}
DepNames == {EncodeName("db", None), EncodeName("glibc", None)}
Versions == {"2.27", "4.8.30"}

mkstore(name, ver) == [name |-> name, version |-> ver]

\* StorePath with its path field
mkstorepath(path, name, version) == [path |-> path, name |-> name, version |-> version]

\* the StorePath StorePath::parse builds: the path is kept
ParsedStorePath(store) ==
    mkstorepath(Some(<<"/nix/store", store.name, store.version>>),
                store.name, store.version)

\* HashSet<StorePath>: a set of records, no two with the same name
IsStoreSet(S) == \A a, b \in S : a.name = b.name => a = b
StoreSets(names, versions) ==
    {S \in SUBSET {mkstore(n, v) : n \in names, v \in versions} : IsStoreSet(S)}

\* Get with the suffix left out of the identity: a lookup by base name
GetByBase(S, name) ==
    IF \E r \in S : BaseOf(r.name) = BaseOf(name)
    THEN Some(CHOOSE r \in S : BaseOf(r.name) = BaseOf(name))
    ELSE None

\* HashSet::get by name
Get(S, name) ==
    IF \E r \in S : r.name = name
    THEN Some(CHOOSE r \in S : r.name = name)
    ELSE None

\* HashSet::insert: a record whose name is already present is not replaced
Insert(S, r) == IF \E x \in S : x.name = r.name THEN S ELSE S \cup {r}

\* Extend that forgets what the set held
ExtendOverwrite(S, X) == X

\* HashSet::extend: insert every record of X
RECURSIVE Extend(_, _)
Extend(S, X) ==
    IF X = {} THEN S
    ELSE LET x == CHOOSE y \in X : TRUE
         IN  Extend(Insert(S, x), X \ {x})

Names(S) == {r.name : r \in S}

-----------------------------------------------------------------------------
(* The partitioner.                                                        *)

Workers == 1..NumWorkers

mksyspkg(path, deps) == [path |-> path, deps |-> deps]

\* SystemPackageMap: package name -> SystemPackage, the key being path.name
PackageMaps ==
    UNION {{[k \in K |-> mksyspkg(mkstore(k, "1"), deps[k])]
               : deps \in [K -> StoreSets(DepNames, Versions)]}
           : K \in SUBSET PkgNames}

IsPackageMap(m) == \A k \in DOMAIN m : m[k].path.name = k

DependencyScan(last_version, has_multiple_versions) ==
    [last_version |-> last_version, has_multiple_versions |-> has_multiple_versions]

\* ScanDep with a flag that is assigned, not latched, on every occupied entry
ScanDepAssign(tracker, dep) ==
    IF dep.name \in DOMAIN tracker
    THEN [tracker EXCEPT ![dep.name].has_multiple_versions =
                             (dep.version # tracker[dep.name].last_version)]
    ELSE [n \in DOMAIN tracker \cup {dep.name} |->
             IF n = dep.name THEN DependencyScan(dep.version, FALSE) ELSE tracker[n]]

\* one iteration of the inner scan loop: ver_tracker.entry(&dep.name)
ScanDep(tracker, dep) ==
    IF dep.name \in DOMAIN tracker
    THEN IF dep.version # tracker[dep.name].last_version
         THEN [tracker EXCEPT ![dep.name].has_multiple_versions = TRUE]
         ELSE tracker
    ELSE [n \in DOMAIN tracker \cup {dep.name} |->
             IF n = dep.name THEN DependencyScan(dep.version, FALSE) ELSE tracker[n]]

\* the inner scan loop over one package's dependencies
RECURSIVE ScanDeps(_, _)
ScanDeps(tracker, deps) ==
    IF deps = {} THEN tracker
    ELSE LET dep == CHOOSE d \in deps : TRUE
         IN  ScanDeps(ScanDep(tracker, dep), deps \ {dep})

\* the names whose scan saw one version only
UniformNames(tracker) ==
    {n \in DOMAIN tracker : ~tracker[n].has_multiple_versions}

\* TakenDeps whose loop over dep_names stops at the first record it takes
TakenDepsFirst(deps, names) ==
    LET taken == {d \in deps : d.name \in names}
    IN  IF taken = {} THEN {} ELSE {CHOOSE d \in taken : TRUE}

\* pkg.deps.take(name) for every name of dep_names: the records taken
TakenDeps(deps, names) == {d \in deps : d.name \in names}

\* LeftDeps with get in the place of take: nothing leaves the package
LeftDepsGet(deps, names) == deps

\* pkg.deps.take(name) for every name of dep_names: the records left behind
LeftDeps(deps, names) == deps \ TakenDeps(deps, names)

PartInit ==
    /\ pc = "scan"
    /\ input_pkgs \in {m \in PackageMaps : IsPackageMap(m)}
    /\ pkgs = input_pkgs
    /\ ver_tracker = <<>>
    /\ scanned = {}
    /\ dep_names = {}
    /\ folded = {}
    /\ acc = [w \in Workers |-> {}]
    /\ merged = {}
    /\ global_deps = {}

\* the outer scan loop visits one more package
ScanPackage ==
    /\ pc = "scan"
    /\ \E p \in DOMAIN pkgs \ scanned :
          /\ ver_tracker' = ScanDeps(ver_tracker, pkgs[p].deps)
          /\ scanned' = scanned \cup {p}
    /\ UNCHANGED <<pc, input_pkgs, pkgs, dep_names, folded, acc, merged, global_deps>>

\* CollectDepNames without waiting for the scan to end: a single pass that
\* judges a name before every package was visited
CollectDepNamesEarly ==
    /\ pc = "scan"
    /\ dep_names' = UniformNames(ver_tracker)
    /\ pc' = "fold"
    /\ UNCHANGED <<input_pkgs, pkgs, ver_tracker, scanned, folded, acc, merged,
                   global_deps>>

\* the scan is over: collect the names to extract
CollectDepNames ==
    /\ pc = "scan"
    /\ scanned = DOMAIN pkgs
    /\ dep_names' = UniformNames(ver_tracker)
    /\ pc' = "fold"
    /\ UNCHANGED <<input_pkgs, pkgs, ver_tracker, scanned, folded, acc, merged,
                   global_deps>>

\* one worker folds one package: take the named dependencies into its
\* accumulator
FoldPackage ==
    /\ pc = "fold"
    /\ \E w \in Workers, p \in DOMAIN pkgs \ folded :
          LET taken == TakenDeps(pkgs[p].deps, dep_names)
          IN  /\ pkgs' = [pkgs EXCEPT ![p].deps = LeftDeps(@, dep_names)]
              /\ acc' = [acc EXCEPT ![w] = Extend(@, taken)]
              /\ folded' = folded \cup {p}
    /\ UNCHANGED <<pc, input_pkgs, ver_tracker, scanned, dep_names, merged, global_deps>>

\* ReduceStep whose closure returns x in the place of the merged set
ReduceStepAssign ==
    /\ pc = "fold"
    /\ folded = DOMAIN pkgs
    /\ \E w1, w2 \in Workers \ merged :
          /\ w1 # w2
          /\ acc' = [acc EXCEPT ![w1] = acc[w2], ![w2] = {}]
          /\ merged' = merged \cup {w2}
    /\ UNCHANGED <<pc, input_pkgs, pkgs, ver_tracker, scanned, dep_names, folded,
                   global_deps>>

\* reduce: one accumulator is merged into another
ReduceStep ==
    /\ pc = "fold"
    /\ folded = DOMAIN pkgs
    /\ \E w1, w2 \in Workers \ merged :
          /\ w1 # w2
          /\ acc' = [acc EXCEPT ![w1] = Extend(@, acc[w2]), ![w2] = {}]
          /\ merged' = merged \cup {w2}
    /\ UNCHANGED <<pc, input_pkgs, pkgs, ver_tracker, scanned, dep_names, folded,
                   global_deps>>

\* the reduction is over: the last accumulator is the result
ReturnGlobalDeps ==
    /\ pc = "fold"
    /\ folded = DOMAIN pkgs
    /\ \E w \in Workers :
          /\ Workers \ merged = {w}
          /\ global_deps' = acc[w]
    /\ pc' = "done"
    /\ UNCHANGED <<input_pkgs, pkgs, ver_tracker, scanned, dep_names, folded, acc, merged>>

DiffIdle ==
    /\ new_stores = {} /\ old_stores = {}
    /\ diff_new = None /\ diff_old = None
    /\ store_diff = None /\ store_diffs = <<>>
    /\ new_pkgs = <<>> /\ old_pkgs = <<>> /\ pkg_diffs = <<>>

UniqIdle ==
    /\ db_rows = <<>> /\ row_idx = 0 /\ unique = {} /\ duplicates = {}

ListIdle ==
    /\ listing = <<>> /\ list_op = "none" /\ stores = {}
    /\ nix_cut = None /\ self_path = None
    /\ cmd_outcome = "none" /\ list_result = "none"

PartIdle ==
    /\ input_pkgs = <<>> /\ pkgs = <<>> /\ ver_tracker = <<>>
    /\ scanned = {} /\ dep_names = {} /\ folded = {}
    /\ acc = <<>> /\ merged = {} /\ global_deps = {}

BuildIdle ==
    /\ build_op = "none" /\ build_stores = {} /\ lookup = <<>>
    /\ built = {} /\ packages = <<>> /\ derivations = {}
    /\ build_result = "none" /\ stores_outcome = "none"

SortIdle ==
    /\ sort_input = <<>> /\ sorted_diffs = <<>> /\ sort_idx = 0

SaveIdle ==
    /\ save_pkgs = <<>> /\ save_file = None /\ loaded_pkgs = <<>>

ParseIdle ==
    /\ raw_path = <<>> /\ parse_op = "none" /\ parsed = None

CmpIdle ==
    /\ new_snapshot = <<>> /\ old_snapshot = <<>>

ExtIdle == BuildIdle /\ SortIdle /\ SaveIdle /\ ParseIdle /\ CmpIdle

isolate_global_dependencies ==
    /\ \/ ScanPackage
       \/ CollectDepNames
       \/ FoldPackage
       \/ ReduceStep
       \/ ReturnGlobalDeps
    /\ UNCHANGED <<diffVars, uniqVars, listVars, extVars>>

Init == PartInit /\ DiffIdle /\ UniqIdle /\ ListIdle /\ ExtIdle
Next == isolate_global_dependencies
Spec == Init /\ [][Next]_vars

-----------------------------------------------------------------------------
(* The diff engine.                                                        *)

\* the iteration orders of a hash collection: every enumeration of S
Perms(S) ==
    {s \in [1..Cardinality(S) -> S] : \A i, j \in DOMAIN s : i # j => s[i] # s[j]}

mkstorediff(name, from, to) == [name |-> name, ver_from |-> from, ver_to |-> to]

\* get_store_diff with ver_from and ver_to taken from the wrong records
get_store_diff_swapped(new, old) ==
    IF new.version = old.version
    THEN None
    ELSE Some(mkstorediff(new.name, new.version, old.version))

get_store_diff(new, old) ==
    IF new.version = old.version
    THEN None
    ELSE Some(mkstorediff(new.name, old.version, new.version))

\* get_store_diffs that reports a record missing from old_set as a Change
RECURSIVE get_store_diffs_added(_, _)
get_store_diffs_added(order, old_set) ==
    IF order = <<>> THEN <<>>
    ELSE LET new  == Head(order)
             old  == Get(old_set, new.name)
             rest == get_store_diffs_added(Tail(order), old_set)
         IN  IF ~IsSome(old)
             THEN <<mkstorediff(new.name, "", new.version)>> \o rest
             ELSE LET diff == get_store_diff(new, Unwrap(old))
                  IN  IF IsSome(diff) THEN <<Unwrap(diff)>> \o rest ELSE rest

\* `order` is the iteration order of new_stores
RECURSIVE get_store_diffs(_, _)
get_store_diffs(order, old_set) ==
    IF order = <<>> THEN <<>>
    ELSE LET new  == Head(order)
             old  == Get(old_set, new.name)
             rest == get_store_diffs(Tail(order), old_set)
         IN  IF ~IsSome(old) THEN rest
             ELSE LET diff == get_store_diff(new, Unwrap(old))
                  IN  IF IsSome(diff) THEN <<Unwrap(diff)>> \o rest ELSE rest

mkpkgdiff(name, pkg, deps) == [name |-> name, pkg |-> pkg, deps |-> deps]

\* get_package_diffs without the test that leaves unchanged packages out
RECURSIVE get_package_diffs_all(_, _, _, _)
get_package_diffs_all(pkg_order, dep_order, new, old) ==
    IF pkg_order = <<>> THEN <<>>
    ELSE LET new_pkg == new[Head(pkg_order)]
             rest    == get_package_diffs_all(Tail(pkg_order), dep_order, new, old)
         IN  IF new_pkg.path.name \notin DOMAIN old THEN rest
             ELSE LET old_pkg   == old[new_pkg.path.name]
                      pkg_diff  == get_store_diff(new_pkg.path, old_pkg.path)
                      dep_diffs == get_store_diffs(dep_order[Head(pkg_order)],
                                                   old_pkg.deps)
                  IN  <<mkpkgdiff(new_pkg.path.name, pkg_diff, dep_diffs)>> \o rest

\* `pkg_order` is the iteration order of new.values(), dep_order[p] the one of
\* package p's dependency set
RECURSIVE get_package_diffs(_, _, _, _)
get_package_diffs(pkg_order, dep_order, new, old) ==
    IF pkg_order = <<>> THEN <<>>
    ELSE LET new_pkg == new[Head(pkg_order)]
             rest    == get_package_diffs(Tail(pkg_order), dep_order, new, old)
         IN  IF new_pkg.path.name \notin DOMAIN old THEN rest
             ELSE LET old_pkg   == old[new_pkg.path.name]
                      pkg_diff  == get_store_diff(new_pkg.path, old_pkg.path)
                      dep_diffs == get_store_diffs(dep_order[Head(pkg_order)],
                                                   old_pkg.deps)
                  IN  IF ~IsSome(pkg_diff) /\ dep_diffs = <<>> THEN rest
                      ELSE <<mkpkgdiff(new_pkg.path.name, pkg_diff, dep_diffs)>>
                           \o rest

DiffBases == {"ffmpeg", "glxinfo"}
DiffSuffixes == {None, Some("bin")}
DiffNames == {EncodeName(b, s) : b \in DiffBases, s \in DiffSuffixes}

StoreDiffInit ==
    /\ pc = "input"
    /\ new_stores \in StoreSets(DiffNames, Versions)
    /\ old_stores \in StoreSets(DiffNames, Versions)
    /\ diff_new = None /\ diff_old = None
    /\ store_diff = None /\ store_diffs = <<>>
    /\ new_pkgs = <<>> /\ old_pkgs = <<>> /\ pkg_diffs = <<>>

\* get_store_diff on a new record and the old record found under its name
\* (the call sites look the old record up by new.name)
GetStoreDiff ==
    /\ pc = "input"
    /\ \E new \in new_stores :
          LET old == Get(old_stores, new.name)
          IN  /\ IsSome(old)
              /\ diff_new' = Some(new)
              /\ diff_old' = old
              /\ store_diff' = get_store_diff(new, Unwrap(old))
    /\ pc' = "diffed_one"
    /\ UNCHANGED <<new_stores, old_stores, store_diffs, new_pkgs, old_pkgs, pkg_diffs>>

GetStoreDiffs ==
    /\ pc = "input"
    /\ \E order \in Perms(new_stores) :
          store_diffs' = get_store_diffs(order, old_stores)
    /\ pc' = "diffed_set"
    /\ UNCHANGED <<new_stores, old_stores, diff_new, diff_old, store_diff,
                   new_pkgs, old_pkgs, pkg_diffs>>

DiffNext ==
    /\ \/ GetStoreDiff
       \/ GetStoreDiffs
    /\ UNCHANGED <<partVars, uniqVars, listVars, extVars>>

InitDiff == StoreDiffInit /\ PartIdle /\ UniqIdle /\ ListIdle /\ ExtIdle
SpecDiff == InitDiff /\ [][DiffNext]_vars

DiffPkgNames == {EncodeName(AllPkgNames[i], None) : i \in 1..2}

DiffPackageMaps ==
    UNION {{[k \in K |-> mksyspkg(mkstore(k, ver[k]), deps[k])]
               : ver \in [K -> Versions],
                 deps \in [K -> StoreSets(DepNames, Versions)]}
           : K \in SUBSET DiffPkgNames}

PkgDiffInit ==
    /\ pc = "input"
    /\ new_pkgs \in {m \in DiffPackageMaps : IsPackageMap(m)}
    /\ old_pkgs \in {m \in DiffPackageMaps : IsPackageMap(m)}
    /\ new_stores = {} /\ old_stores = {}
    /\ diff_new = None /\ diff_old = None
    /\ store_diff = None /\ store_diffs = <<>>
    /\ pkg_diffs = <<>>

GetPackageDiffs ==
    /\ pc = "input"
    /\ \E pkg_order \in Perms(DOMAIN new_pkgs) :
       \E dep_order \in {f \in [DOMAIN new_pkgs -> UNION {Perms(new_pkgs[p].deps)
                                                         : p \in DOMAIN new_pkgs}]
                          : \A p \in DOMAIN new_pkgs : f[p] \in Perms(new_pkgs[p].deps)} :
          pkg_diffs' = get_package_diffs(pkg_order, dep_order, new_pkgs, old_pkgs)
    /\ pc' = "diffed_pkgs"
    /\ UNCHANGED <<new_stores, old_stores, diff_new, diff_old, store_diff,
                   store_diffs, new_pkgs, old_pkgs>>

PkgDiffNext ==
    /\ GetPackageDiffs
    /\ UNCHANGED <<partVars, uniqVars, listVars, extVars>>

InitPkgDiff == PkgDiffInit /\ PartIdle /\ UniqIdle /\ ListIdle /\ ExtIdle
SpecPkgDiff == InitPkgDiff /\ [][PkgDiffNext]_vars

-----------------------------------------------------------------------------
(* The deduplicator of the database path, Store::get_unique.               *)

\* the window inside which two versions count as one system update
WINDOW == 3600

\* registration times of the model: multiples of half the window
RegTimes == {k * (WINDOW \div 2) : k \in 0..MaxTicks}

\* Store (the id plays no part in get_unique and is left out)
mkrow(name, version, suffix, register_time) ==
    [name |-> name, version |-> version, suffix |-> suffix,
     register_time |-> register_time]

RowNames == {"ffmpeg", "glxinfo"}
RowSuffixes == {None, Some("bin")}
Rows == {mkrow(n, v, s, t) : n \in RowNames, v \in Versions, s \in RowSuffixes,
                             t \in RegTimes}

\* ORDER BY registrationTime DESC
IsNewestFirst(rows) ==
    \A i, j \in DOMAIN rows : i < j => rows[i].register_time >= rows[j].register_time

RowLists ==
    UNION {{rows \in [1..n -> Rows] : IsNewestFirst(rows)} : n \in 0..MaxRows}

MaxOf(a, b) == IF a >= b THEN a ELSE b
MinOf(a, b) == IF a <= b THEN a ELSE b

\* UniqueBody that lets a later (older) store of a name replace the kept one
UniqueBodyReplace(st, store) ==
    IF store.name \in st.duplicates THEN st
    ELSE LET existing == Get(st.unique, store.name)
         IN  IF IsSome(existing)
             THEN IF /\ MaxOf(Unwrap(existing).register_time, store.register_time)
                        - MinOf(Unwrap(existing).register_time, store.register_time)
                        < WINDOW
                     /\ Unwrap(existing).version # store.version
                  THEN [unique     |-> st.unique \ {Unwrap(existing)},
                        duplicates |-> st.duplicates \cup {store.name}]
                  ELSE [unique     |-> (st.unique \ {Unwrap(existing)}) \cup {store},
                        duplicates |-> st.duplicates]
             ELSE [unique |-> st.unique \cup {store}, duplicates |-> st.duplicates]

\* the body of get_unique's loop for one store; st holds `unique` and
\* `duplicates`
UniqueBody(st, store) ==
    IF store.name \in st.duplicates THEN st
    ELSE LET existing == Get(st.unique, store.name)
         IN  IF IsSome(existing)
             THEN LET newer_reg_time == MaxOf(Unwrap(existing).register_time,
                                              store.register_time)
                      older_reg_time == MinOf(Unwrap(existing).register_time,
                                              store.register_time)
                  IN  IF /\ newer_reg_time - older_reg_time < WINDOW
                         /\ Unwrap(existing).version # store.version
                      THEN [unique     |-> st.unique \ {Unwrap(existing)},
                            duplicates |-> st.duplicates \cup {store.name}]
                      ELSE st
             ELSE [unique |-> st.unique \cup {store}, duplicates |-> st.duplicates]

UniqueInit ==
    /\ pc = "unique"
    /\ db_rows \in RowLists
    /\ row_idx = 0
    /\ unique = {}
    /\ duplicates = {}

\* get_unique consumes the next store of the iterator
UniqueStep ==
    /\ pc = "unique"
    /\ row_idx < Len(db_rows)
    /\ LET st == UniqueBody([unique |-> unique, duplicates |-> duplicates],
                            db_rows[row_idx + 1])
       IN  /\ unique' = st.unique
           /\ duplicates' = st.duplicates
    /\ row_idx' = row_idx + 1
    /\ UNCHANGED <<pc, db_rows>>

\* the iterator is exhausted: get_unique returns `unique`
UniqueReturn ==
    /\ pc = "unique"
    /\ row_idx = Len(db_rows)
    /\ pc' = "done"
    /\ UNCHANGED <<db_rows, row_idx, unique, duplicates>>

UniqueNext ==
    /\ \/ UniqueStep
       \/ UniqueReturn
    /\ UNCHANGED <<partVars, diffVars, listVars, extVars>>

InitUnique == UniqueInit /\ PartIdle /\ DiffIdle /\ ListIdle /\ ExtIdle
SpecUnique == InitUnique /\ [][UniqueNext]_vars

-----------------------------------------------------------------------------
(* The command-output path: parse_system_stores and parse_deps.            *)

\* String comparison is bytewise: the bytes of the model's version strings
Bytes(v) ==
    CASE v = "1"      -> <<49>>
      [] v = "2.27"   -> <<50, 46, 50, 55>>
      [] v = "4.8.30" -> <<52, 46, 56, 46, 51, 48>>

RECURSIVE SeqGreater(_, _)
SeqGreater(a, b) ==
    IF a = <<>> THEN FALSE
    ELSE IF b = <<>> THEN TRUE
    ELSE IF Head(a) # Head(b) THEN Head(a) > Head(b)
    ELSE SeqGreater(Tail(a), Tail(b))

\* existing.version > store.version
VersionGreater(a, b) == SeqGreater(Bytes(a), Bytes(b))

ListNames == {EncodeName("ffmpeg", None), EncodeName("ffmpeg", Some("bin"))}

\* a line of output after StorePath::parse: a record, or None when the line
\* does not parse; the path the parser stores in the record is left out, the
\* loops never read it
Lines == {None} \cup {Some(mkstore(n, v)) : n \in ListNames, v \in Versions}
Listings == UNION {[1..n -> Lines] : n \in 0..MaxListing}

\* the loop of parse_system_stores over the quoted paths, `acc_stores` being
\* the set built so far
RECURSIVE parse_system_stores(_, _)
parse_system_stores(lines, acc_stores) ==
    IF lines = <<>> THEN acc_stores
    ELSE LET line == Head(lines)
         IN  IF ~IsSome(line)
             THEN parse_system_stores(Tail(lines), acc_stores)
             ELSE LET store    == Unwrap(line)
                      existing == Get(acc_stores, store.name)
                  IN  IF IsSome(existing)
                         /\ VersionGreater(Unwrap(existing).version, store.version)
                      THEN parse_system_stores(Tail(lines), acc_stores)
                      ELSE parse_system_stores(Tail(lines), Insert(acc_stores, store))

\* content.rfind("/nix/") and content.replace_range(idx.., ""): `cut` is None
\* when the output holds no "/nix/", and nothing is cut; else it names the
\* line of the last "/nix/" and, in `before`, what StorePath::parse makes of
\* the text of that line ahead of it (None when the line starts with "/nix/"
\* or the text does not parse). The lines ahead of that line stay, the text
\* ahead of the "/nix/" stays as the last line, everything after it goes.
CutAtLastNix(lines, cut) ==
    IF ~IsSome(cut) THEN lines
    ELSE SubSeq(lines, 1, Unwrap(cut).line - 1) \o <<Unwrap(cut).before>>

\* the loop of parse_deps over the lines of the output
RECURSIVE InsertLines(_, _)
InsertLines(lines, deps) ==
    IF lines = <<>> THEN deps
    ELSE IF ~IsSome(Head(lines)) THEN InsertLines(Tail(lines), deps)
    ELSE InsertLines(Tail(lines), Insert(deps, Unwrap(Head(lines))))

\* SystemPackage::parse_deps on a package whose primary record has the path
\* `path` and whose dependency set is `deps`; `output` is None when
\* cmd.output()? or String::from_utf8(..)? fails, else the lines of the output
\* and its cut. The result is whether Ok(()) is returned and the dependency
\* set the package is left with:
\*   no path            return Ok(()) at once: no command, deps untouched
\*   the command fails  the error, after self.deps.clear()
\*   else               the records of the lines left by the cut
parse_deps(path, deps, output) ==
    IF ~IsSome(path) THEN [ok |-> TRUE, deps |-> deps]
    ELSE IF ~IsSome(output) THEN [ok |-> FALSE, deps |-> {}]
    ELSE [ok   |-> TRUE,
          deps |-> InsertLines(CutAtLastNix(Unwrap(output).lines,
                                            Unwrap(output).cut), {})]

\* how running nixos-option and reading its output can turn out in
\* parse_system_stores:
\*   "Ok"              the output is UTF-8 with "[ " ahead of a ']' and
\*                     every token that starts and ends with '"' is longer
\*                     than one character: the loop runs over the tokens
\*   "Io"              cmd.output()? fails (the command cannot be started)
\*   "Utf8"            String::from_utf8(..)? fails
\*   "MalformedOutput" the output has no "[ " or no ']', the empty output
\*                     included
\*   "panic"           the ']' comes ahead of the "[ " (replace_range past the
\*                     end) or a token is a lone '"' (&split[1..0])
CommandOutcomes == {"Ok", "Io", "Utf8", "MalformedOutput", "panic"}

\* parse_deps runs nix-store -qR: cmd.output()? and String::from_utf8(..)?
\* are its only failures
ParseDepsOutcomes == {"Ok", "Io", "Utf8"}

\* the listing stands for the tokens (lines) of an output that is read; a
\* command that fails or prints something unreadable has none
ListInit ==
    /\ pc = "input"
    /\ cmd_outcome \in CommandOutcomes
    /\ listing \in (IF cmd_outcome = "Ok" THEN Listings ELSE {<<>>})
    /\ nix_cut \in {None} \cup {Some([line |-> i, before |-> b])
                                : i \in DOMAIN listing, b \in Lines}
    /\ self_path \in {None,
                      ParsedStorePath(mkstore(EncodeName("ffmpeg", None), "4.8.30")).path}
    /\ list_op = "none"
    /\ stores = {}
    /\ list_result = "none"

ParseSystemStores ==
    /\ pc = "input"
    /\ list_op' = "parse_system_stores"
    /\ IF cmd_outcome = "Ok"
       THEN /\ stores' = parse_system_stores(listing, {})
            /\ list_result' = "Ok"
            /\ pc' = "done"
       ELSE /\ stores' = stores
            /\ list_result' = cmd_outcome
            /\ pc' = "failed"
    /\ UNCHANGED <<listing, nix_cut, self_path, cmd_outcome>>

\* parse_deps on a package with the path self_path and the dependencies
\* `stores`
ParseDeps ==
    /\ pc = "input"
    /\ cmd_outcome \in ParseDepsOutcomes
    /\ list_op' = "parse_deps"
    /\ LET output == IF cmd_outcome = "Ok"
                      THEN Some([lines |-> listing, cut |-> nix_cut])
                      ELSE None
           result == parse_deps(self_path, stores, output)
       IN  /\ stores' = result.deps
           /\ list_result' = IF result.ok THEN "Ok" ELSE cmd_outcome
           /\ pc' = IF result.ok THEN "done" ELSE "failed"
    /\ UNCHANGED <<listing, nix_cut, self_path, cmd_outcome>>

ListNext ==
    /\ \/ ParseSystemStores
       \/ ParseDeps
    /\ UNCHANGED <<partVars, diffVars, uniqVars, extVars>>

InitListing == ListInit /\ PartIdle /\ DiffIdle /\ UniqIdle /\ ExtIdle
SpecListing == InitListing /\ [][ListNext]_vars

-----------------------------------------------------------------------------
(* The dependency set builder: parse_system_packages over the command      *)
(* output, Derivation::all_from_stores over the database.                  *)

\* Result<T, E>: the error's payload plays no part
Ok(x) == [ok |-> TRUE, val |-> x]
Err == [ok |-> FALSE]

BuildNames == {EncodeName("ffmpeg", None), EncodeName("glxinfo", None)}

\* a line of nix-store -qR after StorePath::parse
ClosureLines == {None} \cup {Some(mkstore(n, v)) : n \in BuildNames, v \in Versions}

\* the lines nix-store -qR prints ahead of the queried store itself
Closures == UNION {[1..n -> ClosureLines] : n \in 0..MaxClosure}

\* the answers of the closure lookup of `store`: a failure, or the closure
\* with the store itself on the last line; every line nix-store prints
\* starts with "/nix/", so the last "/nix/" opens the last line
CommandOutputs(store) ==
    {None} \cup {Some([lines |-> c \o <<Some(mkstore(store.name, store.version))>>,
                       cut   |-> Some([line |-> Len(c) + 1, before |-> None])])
                    : c \in Closures}

\* SystemPackage::with_deps: from_path gives the package an empty dependency
\* set, parse_deps()? fills it; `output` is the answer of nix-store -qR
with_deps(path, output) ==
    LET result == parse_deps(path.path, {}, output)
    IN  IF result.ok THEN Ok(mksyspkg(path, result.deps)) ELSE Err

\* the closure of parse_system_packages' filter_map for one store, applied to
\* the map collected so far: with_deps(store).ok()? leaves a failed store out
filter_map_store(map, store, output) ==
    LET pkg == with_deps(store, output)
    IN  IF ~pkg.ok THEN map
        ELSE [n \in DOMAIN map \cup {store.name} |->
                 IF n = store.name THEN pkg.val ELSE map[n]]

CommandBuildInit ==
    /\ pc = "build"
    /\ build_op = "parse_system_packages"
    /\ stores_outcome \in CommandOutcomes
    /\ build_stores \in (IF stores_outcome = "Ok"
                         THEN {{ParsedStorePath(s) : s \in S}
                                 : S \in StoreSets(BuildNames, Versions)}
                         ELSE {{}})
    /\ lookup \in {f \in [Names(build_stores) ->
                            UNION {CommandOutputs(s) : s \in build_stores}]
                     : \A s \in build_stores : f[s.name] \in CommandOutputs(s)}
    /\ built = {}
    /\ packages = <<>>
    /\ derivations = {}
    /\ build_result = "running"

\* let stores = parse_system_stores()?: the error leaves the function, a
\* panic ends the program
ParseSystemStoresFails ==
    /\ pc = "build"
    /\ build_op = "parse_system_packages"
    /\ stores_outcome # "Ok"
    /\ build_result' = IF stores_outcome = "panic" THEN "panic" ELSE "err"
    /\ pc' = "done"
    /\ UNCHANGED <<build_op, build_stores, lookup, built, packages, derivations,
                   stores_outcome>>

\* one store of the parallel iterator passes through the filter_map closure
WithDeps ==
    /\ pc = "build"
    /\ build_op = "parse_system_packages"
    /\ stores_outcome = "Ok"
    /\ \E store \in build_stores :
          /\ store.name \notin built
          /\ packages' = filter_map_store(packages, store, lookup[store.name])
          /\ built' = built \cup {store.name}
    /\ UNCHANGED <<pc, build_op, build_stores, lookup, derivations, build_result,
                   stores_outcome>>

\* par_extend is over: Ok(packages)
ParseSystemPackagesReturn ==
    /\ pc = "build"
    /\ build_op = "parse_system_packages"
    /\ stores_outcome = "Ok"
    /\ built = Names(build_stores)
    /\ build_result' = "ok"
    /\ pc' = "done"
    /\ UNCHANGED <<build_op, build_stores, lookup, built, packages, derivations,
                   stores_outcome>>

\* ---- the database path

\* the ids of the rows of ValidPaths: 1 and 2 are the top-level stores
TopIds == {1, 2}
DbIds == {1, 2, 3, 4}

\* the rows of the other stores of the database
OtherRows == {mkrow(n, v, None, t) : n \in {"ffmpeg", "glibc"}, v \in Versions,
                                     t \in RegTimes}

\* ValidPaths after Store::parse: id -> Store
DbTables ==
    {[i \in DbIds |->
         CASE i = 1 -> mkrow("ffmpeg", "4.8.30", None, MaxTicks * (WINDOW \div 2))
           [] i = 2 -> mkrow("glxinfo", "2.27", None, MaxTicks * (WINDOW \div 2))
           [] OTHER -> other[i]]
       : other \in [DbIds \ TopIds -> OtherRows]}

\* the answers of the Refs query of one store: a failure, or the ids the
\* store refers to (a store may refer to itself)
RefAnswers == {None} \cup {Some(ids) : ids \in SUBSET DbIds}

\* Store::get_unique over a whole iterator
RECURSIVE get_unique_loop(_, _)
get_unique_loop(rows, st) ==
    IF rows = <<>> THEN st.unique
    ELSE get_unique_loop(Tail(rows), UniqueBody(st, Head(rows)))

get_unique(rows) == get_unique_loop(rows, [unique |-> {}, duplicates |-> {}])

\* the orders the query can return the rows of `ids` in:
\* ORDER BY registrationTime DESC
QueryOrders(table, ids) ==
    {o \in Perms(ids) :
        \A i, j \in DOMAIN o :
            i < j => table[o[i]].register_time >= table[o[j]].register_time}

\* .filter(id.ne(store.id)).filter(is_dependency): the ids of all_deps
dependency_ids(ids, store_id) == ids \ {store_id}

\* the rows of all_deps in the order the query returns them
all_deps(table, order) == [i \in DOMAIN order |-> table[order[i]]]

mkderivation(store, deps) == [store |-> store, deps |-> deps]

DbBuildInit ==
    /\ pc = "build"
    /\ build_op = "all_from_stores"
    /\ \E table \in DbTables :
          /\ build_stores = {[id |-> i, store |-> table[i]] : i \in TopIds}
          /\ \E refs \in [TopIds -> RefAnswers] :
                lookup = [i \in TopIds |->
                             IF IsSome(refs[i])
                             THEN Some([ids |-> Unwrap(refs[i]), table |-> table])
                             ELSE None]
    /\ built = {}
    /\ packages = <<>>
    /\ derivations = {}
    /\ build_result = "running"
    /\ stores_outcome = "none"

\* one iteration of the loop of all_from_stores: the query succeeds
DerivationInsert ==
    /\ pc = "build"
    /\ build_op = "all_from_stores"
    /\ \E s \in build_stores :
          /\ s.id \notin built
          /\ IsSome(lookup[s.id])
          /\ LET answer == Unwrap(lookup[s.id])
             IN  \E order \in QueryOrders(answer.table,
                                           dependency_ids(answer.ids, s.id)) :
                    derivations' = derivations \cup
                        {mkderivation(s.store,
                                      get_unique(all_deps(answer.table, order)))}
          /\ built' = built \cup {s.id}
    /\ UNCHANGED <<pc, build_op, build_stores, lookup, packages, build_result,
                   stores_outcome>>

\* one iteration of the loop of all_from_stores: get_results fails and `?`
\* leaves the transaction and the function with the error
DerivationQueryFails ==
    /\ pc = "build"
    /\ build_op = "all_from_stores"
    /\ \E s \in build_stores :
          /\ s.id \notin built
          /\ ~IsSome(lookup[s.id])
    /\ derivations' = {}
    /\ build_result' = "err"
    /\ pc' = "done"
    /\ UNCHANGED <<build_op, build_stores, lookup, built, packages, stores_outcome>>

\* the loop is over: Ok(packages)
AllFromStoresReturn ==
    /\ pc = "build"
    /\ build_op = "all_from_stores"
    /\ built = {s.id : s \in build_stores}
    /\ build_result' = "ok"
    /\ pc' = "done"
    /\ UNCHANGED <<build_op, build_stores, lookup, built, packages, derivations,
                   stores_outcome>>

BuildNext ==
    /\ \/ ParseSystemStoresFails
       \/ WithDeps
       \/ ParseSystemPackagesReturn
       \/ DerivationInsert
       \/ DerivationQueryFails
       \/ AllFromStoresReturn
    /\ UNCHANGED <<partVars, diffVars, uniqVars, listVars, sortVars, saveVars,
                   parseVars, cmpVars>>

BuildInit == CommandBuildInit \/ DbBuildInit
InitBuild ==
    BuildInit /\ PartIdle /\ DiffIdle /\ UniqIdle /\ ListIdle /\ SortIdle /\ SaveIdle
              /\ ParseIdle /\ CmpIdle
SpecBuild == InitBuild /\ [][BuildNext]_vars

-----------------------------------------------------------------------------
(* The ordering of the changes: sys_pkg_sorter and the sorts of            *)
(* detect_package_diff.                                                    *)

\* the bytes of the strings names are made of
StrBytes(s) ==
    CASE s = "test1"   -> <<116, 101, 115, 116, 49>>
      [] s = "test2"   -> <<116, 101, 115, 116, 50>>
      [] s = "test3"   -> <<116, 101, 115, 116, 51>>
      [] s = "test4"   -> <<116, 101, 115, 116, 52>>
      [] s = "test5"   -> <<116, 101, 115, 116, 53>>
      [] s = "db"      -> <<100, 98>>
      [] s = "glibc"   -> <<103, 108, 105, 98, 99>>
      [] s = "ffmpeg"  -> <<102, 102, 109, 112, 101, 103>>
      [] s = "glxinfo" -> <<103, 108, 120, 105, 110, 102, 111>>
      [] s = "bin"     -> <<98, 105, 110>>
      [] s = "|"       -> <<124>>

\* the bytes of a StorePath name: the fragments of EncodeName one after another
RECURSIVE NameBytes(_)
NameBytes(name) ==
    IF name = <<>> THEN <<>> ELSE StrBytes(Head(name)) \o NameBytes(Tail(name))

\* usize::cmp
CmpInt(a, b) == IF a < b THEN "Less" ELSE IF a > b THEN "Greater" ELSE "Equal"

\* the lexicographic comparison of two byte strings
RECURSIVE CmpBytes(_, _)
CmpBytes(a, b) ==
    IF a = <<>> /\ b = <<>> THEN "Equal"
    ELSE IF a = <<>> THEN "Less"
    ELSE IF b = <<>> THEN "Greater"
    ELSE IF Head(a) # Head(b) THEN CmpInt(Head(a), Head(b))
    ELSE CmpBytes(Tail(a), Tail(b))

\* String::cmp on two names
CmpName(a, b) == CmpBytes(NameBytes(a), NameBytes(b))

\* Ordering::then_with
then_with(first, second) == IF first # "Equal" THEN first ELSE second

\* sys_pkg_sorter that compares the dependency counts the other way round
sys_pkg_sorter_ascending(new, old) ==
    IF IsSome(new.pkg) = IsSome(old.pkg)
    THEN then_with(CmpInt(Len(new.deps), Len(old.deps)), CmpName(new.name, old.name))
    ELSE IF IsSome(new.pkg) THEN "Less" ELSE "Greater"

sys_pkg_sorter(new, old) ==
    IF IsSome(new.pkg) = IsSome(old.pkg)
    THEN then_with(CmpInt(Len(old.deps), Len(new.deps)), CmpName(new.name, old.name))
    ELSE IF IsSome(new.pkg) THEN "Less" ELSE "Greater"

\* the comparator of the dependency sorts: |x, y| x.name.cmp(&y.name)
store_diff_sorter(x, y) == CmpName(x.name, y.name)

\* sort_unstable_by on a short slice is an insertion sort: x moves left from
\* the tail of the sorted prefix while it compares Less
RECURSIVE insert_tail_pkg(_, _)
insert_tail_pkg(prefix, x) ==
    IF prefix = <<>> \/ sys_pkg_sorter(x, prefix[Len(prefix)]) # "Less"
    THEN Append(prefix, x)
    ELSE Append(insert_tail_pkg(SubSeq(prefix, 1, Len(prefix) - 1), x),
                prefix[Len(prefix)])

RECURSIVE sort_pkg_diffs_from(_, _)
sort_pkg_diffs_from(prefix, rest) ==
    IF rest = <<>> THEN prefix
    ELSE sort_pkg_diffs_from(insert_tail_pkg(prefix, Head(rest)), Tail(rest))

\* pkg_diffs.sort_unstable_by(sys_pkg_sorter)
sort_pkg_diffs(diffs) == sort_pkg_diffs_from(<<>>, diffs)

RECURSIVE insert_tail_dep(_, _)
insert_tail_dep(prefix, x) ==
    IF prefix = <<>> \/ store_diff_sorter(x, prefix[Len(prefix)]) # "Less"
    THEN Append(prefix, x)
    ELSE Append(insert_tail_dep(SubSeq(prefix, 1, Len(prefix) - 1), x),
                prefix[Len(prefix)])

RECURSIVE sort_store_diffs_from(_, _)
sort_store_diffs_from(prefix, rest) ==
    IF rest = <<>> THEN prefix
    ELSE sort_store_diffs_from(insert_tail_dep(prefix, Head(rest)), Tail(rest))

\* diff.deps.sort_unstable_by(|x, y| x.name.cmp(&y.name))
sort_store_diffs(diffs) == sort_store_diffs_from(<<>>, diffs)

SortPkgNames == {EncodeName(AllPkgNames[i], None) : i \in 1..MaxDiffs}

\* the dependency changes get_store_diffs returns for a package: none, one
\* Change, or one Change for each of two names in either order
DepDiffLists ==
    UNION {Perms({mkstorediff(n, "2.27", "4.8.30") : n \in N})
              : N \in {{}, {EncodeName("glibc", None)}, DepNames}}

\* what get_package_diffs can report of one package: a primary Change or
\* none, and the dependency Changes, never neither
DiffShapes ==
    {[pkg |-> pkg, deps |-> deps] : pkg \in BOOLEAN, deps \in DepDiffLists}
    \ {[pkg |-> FALSE, deps |-> <<>>]}

\* the PackageDiff of shape `shape` for the package `name`
PackageDiffOf(name, shape) ==
    mkpkgdiff(name,
              IF shape.pkg THEN Some(mkstorediff(name, "2.27", "4.8.30")) ELSE None,
              shape.deps)

\* the list get_package_diffs returns is any list with one entry a package
\* at most, in the iteration order of the map
SortInit ==
    /\ pc = "sort"
    /\ \E N \in SUBSET SortPkgNames :
         \E order \in Perms(N) :
           \E shape \in [N -> DiffShapes] :
              sort_input = [i \in DOMAIN order |->
                               PackageDiffOf(order[i], shape[order[i]])]
    /\ sorted_diffs = sort_input
    /\ sort_idx = 0

\* pkg_diffs.sort_unstable_by(sys_pkg_sorter)
SortPackageDiffs ==
    /\ pc = "sort"
    /\ sorted_diffs' = sort_pkg_diffs(sorted_diffs)
    /\ pc' = "print"
    /\ UNCHANGED <<sort_input, sort_idx>>

\* the print loop visits the next PackageDiff and sorts its dependency changes
SortDeps ==
    /\ pc = "print"
    /\ sort_idx < Len(sorted_diffs)
    /\ sorted_diffs' = [sorted_diffs EXCEPT ![sort_idx + 1].deps =
                           IF @ = <<>> THEN @ ELSE sort_store_diffs(@)]
    /\ sort_idx' = sort_idx + 1
    /\ UNCHANGED <<pc, sort_input>>

\* the print loop is over
PrintReturn ==
    /\ pc = "print"
    /\ sort_idx = Len(sorted_diffs)
    /\ pc' = "done"
    /\ UNCHANGED <<sort_input, sorted_diffs, sort_idx>>

SortNext ==
    /\ \/ SortPackageDiffs
       \/ SortDeps
       \/ PrintReturn
    /\ UNCHANGED <<partVars, diffVars, uniqVars, listVars, buildVars, saveVars,
                   parseVars, cmpVars>>

InitSort ==
    SortInit /\ PartIdle /\ DiffIdle /\ UniqIdle /\ ListIdle /\ BuildIdle /\ SaveIdle
             /\ ParseIdle /\ CmpIdle
SpecSort == InitSort /\ [][SortNext]_vars

-----------------------------------------------------------------------------
(* The saved state: save_system_pkgs and get_saved_system_pkgs.            *)

\* a package map as parse_system_packages returns it
ParsedPackageMap(m) ==
    [k \in DOMAIN m |->
        mksyspkg(ParsedStorePath(m[k].path), {ParsedStorePath(d) : d \in m[k].deps})]

\* Serialize for StorePath with the version skipped as well: it is read back
\* as the default, the empty string
ser_store_path_skip_version(store) == <<store.name, "">>

\* Serialize for StorePath: the fields in order, the path skipped
ser_store_path(store) == <<store.name, store.version>>

\* Deserialize for StorePath: the skipped path is the default, None
de_store_path(v) == mkstorepath(None, v[1], v[2])

\* Serialize for SystemPackage; dep_order is the iteration order of deps
ser_system_package(pkg, dep_order) ==
    <<ser_store_path(pkg.path), [i \in DOMAIN dep_order |-> ser_store_path(dep_order[i])]>>

\* Deserialize for HashSet<StorePath>: the elements are inserted one by one
RECURSIVE de_store_path_map(_, _)
de_store_path_map(v, set) ==
    IF v = <<>> THEN set
    ELSE de_store_path_map(Tail(v), Insert(set, de_store_path(Head(v))))

\* Deserialize for SystemPackage
de_system_package(v) == mksyspkg(de_store_path(v[1]), de_store_path_map(v[2], {}))

\* the loop of get_saved_system_pkgs: results.insert(pkg.path.name, pkg)
RECURSIVE insert_packages(_, _)
insert_packages(v, results) ==
    IF v = <<>> THEN results
    ELSE LET pkg == de_system_package(Head(v))
         IN  insert_packages(Tail(v),
                 [n \in DOMAIN results \cup {pkg.path.name} |->
                     IF n = pkg.path.name THEN pkg ELSE results[n]])

SaveInit ==
    /\ pc = "save"
    /\ save_pkgs \in {ParsedPackageMap(m) : m \in DiffPackageMaps}
    /\ save_file = None
    /\ loaded_pkgs = <<>>

\* save_system_pkgs: the map is drained into a Vec and written
SaveSystemPkgs ==
    /\ pc = "save"
    /\ \E pkg_order \in Perms(DOMAIN save_pkgs) :
       \E dep_order \in {f \in [DOMAIN save_pkgs ->
                                   UNION {Perms(save_pkgs[p].deps) : p \in DOMAIN save_pkgs}]
                           : \A p \in DOMAIN save_pkgs : f[p] \in Perms(save_pkgs[p].deps)} :
          save_file' = Some([i \in DOMAIN pkg_order |->
                                ser_system_package(save_pkgs[pkg_order[i]],
                                                   dep_order[pkg_order[i]])])
    /\ pc' = "saved"
    /\ UNCHANGED <<save_pkgs, loaded_pkgs>>

\* get_saved_system_pkgs: the Vec is read and collected into a map
GetSavedSystemPkgs ==
    /\ pc = "saved"
    /\ IsSome(save_file)
    /\ loaded_pkgs' = insert_packages(Unwrap(save_file), <<>>)
    /\ pc' = "loaded"
    /\ UNCHANGED <<save_pkgs, save_file>>

SaveNext ==
    /\ \/ SaveSystemPkgs
       \/ GetSavedSystemPkgs
    /\ UNCHANGED <<partVars, diffVars, uniqVars, listVars, buildVars, sortVars,
                   parseVars, cmpVars>>

InitSave ==
    SaveInit /\ PartIdle /\ DiffIdle /\ UniqIdle /\ ListIdle /\ BuildIdle /\ SortIdle
             /\ ParseIdle /\ CmpIdle
SpecSave == InitSave /\ [][SaveNext]_vars

-----------------------------------------------------------------------------
(* The identifier parsers: Store::parse over bytes and StorePath::parse    *)
(* over fragments.  A string is the sequence of its characters; indices    *)
(* are the zero-based indices of the code.                                 *)

Digits == {"0", "1", "2", "3", "4", "5", "6", "7", "8", "9"}
LowerLetters == {"a", "b", "c", "d", "e", "f", "g", "h", "i", "j", "k", "l", "m",
                 "n", "o", "p", "q", "r", "s", "t", "u", "v", "w", "x", "y", "z"}
UpperLetters == {"A", "B", "C", "D", "E", "F", "G", "H", "I", "J", "K", "L", "M",
                 "N", "O", "P", "Q", "R", "S", "T", "U", "V", "W", "X", "Y", "Z"}

\* u8::is_ascii_digit, and char::is_numeric on the characters of the model
is_ascii_digit(c) == c \in Digits
\* char::is_alphabetic on the characters of the model
is_alphabetic(c) == c \in LowerLetters \cup UpperLetters

\* &s[from..to] and &s[from..]
Slice(s, from, to) == SubSeq(s, from + 1, to)
SliceFrom(s, from) == SubSeq(s, from + 1, Len(s))

\* iter().position(|b| *b == b'-') and str::find('-'): the index of the first
\* '-' of s, None when there is none
PositionOfDash(s) ==
    IF \E i \in DOMAIN s : s[i] = "-"
    THEN Some((CHOOSE i \in DOMAIN s : s[i] = "-" /\ \A j \in 1..(i - 1) : s[j] # "-") - 1)
    ELSE None

\* "/nix/store/zzw3mjv8dcmrz4ran92pnyj97f05ff55-".len()
PREFIX_LEN == 44
DASH_POS == PREFIX_LEN - 1

\* strip_prefix whose fast path takes an input that ends with the prefix
strip_prefix_no_length_check(bytes) ==
    IF Len(bytes) >= PREFIX_LEN /\ bytes[DASH_POS + 1] = "-"
    THEN Some(SliceFrom(bytes, PREFIX_LEN))
    ELSE LET pos == PositionOfDash(bytes)
         IN  IF ~IsSome(pos) THEN None
             ELSE IF Len(bytes) <= Unwrap(pos) + 1 THEN None
             ELSE Some(SliceFrom(bytes, Unwrap(pos) + 1))

\* Store::strip_prefix
strip_prefix(bytes) ==
    IF Len(bytes) > PREFIX_LEN /\ bytes[DASH_POS + 1] = "-"
    THEN Some(SliceFrom(bytes, PREFIX_LEN))
    ELSE LET pos == PositionOfDash(bytes)
         IN  IF ~IsSome(pos) THEN None
             ELSE IF Len(bytes) <= Unwrap(pos) + 1 THEN None
             ELSE Some(SliceFrom(bytes, Unwrap(pos) + 1))

\* StorePath::strip
strip(path) ==
    LET idx == PositionOfDash(path)
    IN  IF ~IsSome(idx) THEN None
        ELSE IF Len(path) <= Unwrap(idx) + 1 THEN None
        ELSE Some(SliceFrom(path, Unwrap(idx) + 1))

\* Store::is_version_str
Store_is_version_str(bytes) ==
    IF bytes = <<>> THEN FALSE
    ELSE IF bytes[1] = "v" /\ (Len(bytes) < 2 \/ ~is_ascii_digit(bytes[2])) THEN FALSE
    ELSE IF bytes[1] # "v" /\ ~is_ascii_digit(bytes[1]) THEN FALSE
    ELSE LET rest == IF bytes[1] = "v" THEN SliceFrom(bytes, 1) ELSE bytes
         IN  \A i \in DOMAIN rest :
                 is_ascii_digit(rest[i]) \/ rest[i] \in {".", "_"} \cup LowerLetters

\* StorePath::is_version_str
StorePath_is_version_str(string) ==
    IF string = <<>> \/ ~(is_ascii_digit(string[1]) \/ string[1] = "v") THEN FALSE
    ELSE \A i \in DOMAIN string :
             is_ascii_digit(string[i]) \/ string[i] \in {".", "_"} \cup LowerLetters

\* the indices of the delimiter in path, from index i - 1 on
RECURSIVE dash_indices(_, _)
dash_indices(path, i) ==
    IF i > Len(path) THEN <<>>
    ELSE (IF path[i] = "-" THEN <<i - 1>> ELSE <<>>) \o dash_indices(path, i + 1)

\* fragment_slice that runs to the end of the path for every delimiter
fragment_slice_to_end(path, fragments, k) == SliceFrom(path, fragments[k] + 1)

\* the slice the version loop of Store::parse tests for the k-th delimiter
fragment_slice(path, fragments, k) ==
    IF k < Len(fragments)
    THEN Slice(path, fragments[k] + 1, fragments[k + 1])
    ELSE SliceFrom(path, fragments[k] + 1)

\* the last fragment is the suffix when all of it is alphabetic
Store_is_suffix_alphabetic(slice) == \A i \in DOMAIN slice : is_alphabetic(slice[i])

\* the suffix test looking at the first byte of the last fragment only
Store_is_suffix_first_byte(slice) == slice = <<>> \/ ~is_ascii_digit(slice[1])

\* Store::parse: "the suffix is the last fragment if it does not contain any
\* numbers"
Store_is_suffix(slice) == ~\E i \in DOMAIN slice : is_ascii_digit(slice[i])

\* the general path of Store::parse: two delimiters or more
Store_parse_general(register_time, path, fragments) ==
    LET last_frag    == fragments[Len(fragments)]
        slice        == SliceFrom(path, last_frag + 1)
        has_suffix   == Store_is_suffix(slice)
        suffix       == IF has_suffix THEN Some(slice) ELSE None
        suffix_start == IF has_suffix THEN last_frag ELSE Len(path)
        matches      == {k \in DOMAIN fragments :
                            Store_is_version_str(fragment_slice(path, fragments, k))}
    IN  IF matches = {} THEN None
        ELSE LET k             == CHOOSE m \in matches : \A n \in matches : m <= n
                 version       == Slice(path, fragments[k] + 1, suffix_start)
                 version_start == fragments[k]
             IN  Some(mkrow(Slice(path, 0, version_start), version, suffix,
                            register_time))

\* a slice &path[from..to] of a string of `len` bytes, as the parser asks
\* for it
mkslice(from, to, len) == [from |-> from, to |-> to, len |-> len]

\* the slices the general path of Store::parse takes of path: the last
\* fragment, the fragments the version loop visits up to the first version,
\* the version and the name
Store_parse_general_slices(path, fragments) ==
    LET len          == Len(path)
        last_frag    == fragments[Len(fragments)]
        has_suffix   == Store_is_suffix(SliceFrom(path, last_frag + 1))
        suffix_start == IF has_suffix THEN last_frag ELSE len
        matches      == {k \in DOMAIN fragments :
                            Store_is_version_str(fragment_slice(path, fragments, k))}
        visited      == {k \in DOMAIN fragments : \A m \in matches : k <= m}
    IN  {mkslice(last_frag + 1, len, len)}
        \cup {mkslice(fragments[k] + 1,
                      IF k < Len(fragments) THEN fragments[k + 1] ELSE len, len)
                 : k \in visited}
        \cup (IF matches = {} THEN {}
              ELSE LET k == CHOOSE m \in matches : \A n \in matches : m <= n
                   IN  {mkslice(fragments[k] + 1, suffix_start, len),
                        mkslice(0, fragments[k], len)})

\* the slices Store::parse takes of the stripped path
Store_parse_slices(raw) ==
    LET stripped == strip_prefix(raw)
    IN  IF ~IsSome(stripped) THEN {}
        ELSE LET path      == Unwrap(stripped)
                 fragments == dash_indices(path, 1)
             IN  IF Len(fragments) = 0 THEN {}
                 ELSE IF Len(fragments) = 1
                 THEN {mkslice(fragments[1] + 1, Len(path), Len(path))}
                      \cup (IF \E i \in (fragments[1] + 2)..Len(path) :
                                  is_ascii_digit(path[i])
                            THEN {mkslice(0, fragments[1], Len(path))}
                            ELSE {})
                 ELSE Store_parse_general_slices(path, fragments)

\* Store::parse (the id is left out)
Store_parse(register_time, raw) ==
    LET stripped == strip_prefix(raw)
    IN  IF ~IsSome(stripped) THEN None
        ELSE LET path      == Unwrap(stripped)
                 fragments == dash_indices(path, 1)
             IN  IF Len(fragments) = 0 THEN None
                 ELSE IF Len(fragments) = 1
                 THEN LET version == SliceFrom(path, fragments[1] + 1)
                      IN  IF ~\E i \in DOMAIN version : is_ascii_digit(version[i])
                          THEN None
                          ELSE Some(mkrow(Slice(path, 0, fragments[1]), version, None,
                                          register_time))
                 ELSE Store_parse_general(register_time, path, fragments)

\* str::split('-')
RECURSIVE Split(_)
Split(s) ==
    LET pos == PositionOfDash(s)
    IN  IF ~IsSome(pos) THEN <<s>>
        ELSE <<Slice(s, 0, Unwrap(pos))>> \o Split(SliceFrom(s, Unwrap(pos) + 1))

\* [&str]::join("-")
RECURSIVE Join(_)
Join(frags) ==
    IF frags = <<>> THEN <<>>
    ELSE IF Len(frags) = 1 THEN frags[1]
    ELSE frags[1] \o <<"-">> \o Join(Tail(frags))

\* StorePath::parse: split_sep[end].chars().all(char::is_alphabetic)
StorePath_is_suffix(string) == \A i \in DOMAIN string : is_alphabetic(string[i])

\* the general path of StorePath::parse: three fragments or more
StorePath_parse_general(split_sep) ==
    LET end        == Len(split_sep)
        has_suffix == StorePath_is_suffix(split_sep[end])
        rest       == IF has_suffix THEN SubSeq(split_sep, 1, end - 1) ELSE split_sep
        matches    == {p \in DOMAIN rest : StorePath_is_version_str(rest[p])}
    IN  IF matches = {} THEN None
        ELSE LET pos     == CHOOSE m \in matches : \A n \in matches : m <= n
                 ver_str == Join(SubSeq(rest, pos, Len(rest)))
                 name    == Join(SubSeq(rest, 1, pos - 1))
             IN  Some(mkstore(IF has_suffix THEN name \o <<"|">> \o split_sep[end]
                                            ELSE name,
                              ver_str))

\* StorePath::parse (the path field is left out)
StorePath_parse(raw) ==
    LET stripped == strip(raw)
    IN  IF ~IsSome(stripped) THEN None
        ELSE LET split_sep == Split(Unwrap(stripped))
             IN  IF Len(split_sep) <= 1 THEN None
                 ELSE IF Len(split_sep) = 2
                 THEN IF ~StorePath_is_version_str(split_sep[2]) THEN None
                      ELSE Some(mkstore(split_sep[1], split_sep[2]))
                 ELSE StorePath_parse_general(split_sep)

\* the characters the raw strings of the model are made of
Chars == {"a", "v", "A", "1", ".", "-"}

\* "/nix/store/" and a hash of 32 characters
StoreDir ==
    <<"/", "n", "i", "x", "/", "s", "t", "o", "r", "e", "/">> \o [i \in 1..32 |-> "z"]

\* the raw paths: the store directory, a hash, '-' and up to MaxStr characters
RawPaths ==
    {StoreDir \o <<"-">> \o s : s \in UNION {[1..n -> Chars] : n \in 0..MaxStr}}

ParseInit ==
    /\ pc = "input"
    /\ raw_path \in RawPaths
    /\ parse_op = "none"
    /\ parsed = None

StoreParse ==
    /\ pc = "input"
    /\ parsed' = Store_parse(0, raw_path)
    /\ parse_op' = "Store::parse"
    /\ pc' = "parsed"
    /\ UNCHANGED raw_path

StorePathParse ==
    /\ pc = "input"
    /\ parsed' = StorePath_parse(raw_path)
    /\ parse_op' = "StorePath::parse"
    /\ pc' = "parsed"
    /\ UNCHANGED raw_path

ParseNext ==
    /\ \/ StoreParse
       \/ StorePathParse
    /\ UNCHANGED <<partVars, diffVars, uniqVars, listVars, buildVars, sortVars,
                   saveVars, cmpVars>>

InitParse ==
    ParseInit /\ PartIdle /\ DiffIdle /\ UniqIdle /\ ListIdle /\ BuildIdle
              /\ SortIdle /\ SaveIdle /\ CmpIdle
SpecParse == InitParse /\ [][ParseNext]_vars

-----------------------------------------------------------------------------
(* Prefix stripping on its own: Store::strip_prefix and StorePath::strip   *)
(* over inputs with and without the prefix of a store path.                *)

\* a directory part as long as StoreDir with a '-' inside it
DashedDir ==
    <<"/", "n", "i", "x", "-", "s", "t", "o", "r", "e", "/">> \o [i \in 1..32 |-> "z"]

\* the inputs of the stripping functions: nothing, the store directory with
\* its hash, or a directory with an early '-', followed by up to MaxStr
\* characters
StripInputs ==
    {d \o t : d \in {<<>>, StoreDir, DashedDir},
              t \in UNION {[1..n -> {"a", "-"}] : n \in 0..MaxStr}}

StripInit ==
    /\ pc = "input"
    /\ raw_path \in StripInputs
    /\ parse_op = "none"
    /\ parsed = None

StripPrefix ==
    /\ pc = "input"
    /\ parsed' = strip_prefix(raw_path)
    /\ parse_op' = "Store::strip_prefix"
    /\ pc' = "stripped"
    /\ UNCHANGED raw_path

Strip ==
    /\ pc = "input"
    /\ parsed' = strip(raw_path)
    /\ parse_op' = "StorePath::strip"
    /\ pc' = "stripped"
    /\ UNCHANGED raw_path

StripNext ==
    /\ \/ StripPrefix
       \/ Strip
    /\ UNCHANGED <<partVars, diffVars, uniqVars, listVars, buildVars, sortVars,
                   saveVars, cmpVars>>

InitStrip ==
    StripInit /\ PartIdle /\ DiffIdle /\ UniqIdle /\ ListIdle /\ BuildIdle
              /\ SortIdle /\ SaveIdle /\ CmpIdle
SpecStrip == InitStrip /\ [][StripNext]_vars

-----------------------------------------------------------------------------
(* The end-to-end comparison: detect_package_diff partitions the new and   *)
(* the old package map, each on its own, and diffs the results.            *)

\* the scan loop of isolate_global_dependencies: pkgs.values_mut() hands out
\* the packages in the hash order `order`, an enumeration of the keys of m;
\* the last_version of a tracker entry is the version met first in that order
RECURSIVE scan_packages(_, _, _)
scan_packages(tracker, m, order) ==
    IF order = <<>> THEN tracker
    ELSE scan_packages(ScanDeps(tracker, m[Head(order)].deps), m, Tail(order))

\* dep_names of isolate_global_dependencies for the package map m scanned
\* in the order scan_order
isolate_dep_names(m, scan_order) ==
    UniformNames(scan_packages(<<>>, m, scan_order))

\* isolate_pkgs that takes nothing out of the packages
isolate_pkgs_keep(m, scan_order) == m

\* the package map isolate_global_dependencies leaves behind
isolate_pkgs(m, scan_order) ==
    LET dep_names_ == isolate_dep_names(m, scan_order)
    IN  [p \in DOMAIN m |-> [m[p] EXCEPT !.deps = LeftDeps(@, dep_names_)]]

\* fold and reduce of isolate_global_dependencies: the packages reach the
\* accumulated set in the order `order`
RECURSIVE fold_reduce(_, _, _, _)
fold_reduce(set, m, order, names) ==
    IF order = <<>> THEN set
    ELSE fold_reduce(Extend(set, TakenDeps(m[Head(order)].deps, names)), m,
                     Tail(order), names)

\* the set isolate_global_dependencies returns
isolate_gdeps(m, scan_order, fold_order) ==
    fold_reduce({}, m, fold_order, isolate_dep_names(m, scan_order))

\* the package maps handed to detect_package_diff
SnapshotMaps ==
    UNION {{[k \in K |-> mksyspkg(mkstore(k, "1"), deps[k])]
               : deps \in [K -> StoreSets(DepNames, Versions)]}
           : K \in SUBSET DiffPkgNames}

CompareInit ==
    /\ pc = "input"
    /\ new_snapshot \in SnapshotMaps
    /\ old_snapshot \in SnapshotMaps
    /\ new_pkgs = new_snapshot /\ old_pkgs = old_snapshot
    /\ new_stores = {} /\ old_stores = {}
    /\ diff_new = None /\ diff_old = None
    /\ store_diff = None /\ store_diffs = <<>>
    /\ pkg_diffs = <<>>

\* let new_gdeps = store::isolate_global_dependencies(&mut new_pkgs)?
IsolateNew ==
    /\ pc = "input"
    /\ \E scan_order, fold_order \in Perms(DOMAIN new_pkgs) :
          /\ new_stores' = isolate_gdeps(new_pkgs, scan_order, fold_order)
          /\ new_pkgs' = isolate_pkgs(new_pkgs, scan_order)
    /\ pc' = "isolated_new"
    /\ UNCHANGED <<old_stores, diff_new, diff_old, store_diff, store_diffs,
                   old_pkgs, pkg_diffs>>

\* let old_gdeps = store::isolate_global_dependencies(&mut old_pkgs)?
IsolateOld ==
    /\ pc = "isolated_new"
    /\ \E scan_order, fold_order \in Perms(DOMAIN old_pkgs) :
          /\ old_stores' = isolate_gdeps(old_pkgs, scan_order, fold_order)
          /\ old_pkgs' = isolate_pkgs(old_pkgs, scan_order)
    /\ pc' = "isolated"
    /\ UNCHANGED <<new_stores, diff_new, diff_old, store_diff, store_diffs,
                   new_pkgs, pkg_diffs>>

\* get_package_diffs, the sort of its result and the sorts of the print loop
ComparePackages ==
    /\ pc = "isolated"
    /\ \E pkg_order \in Perms(DOMAIN new_pkgs) :
       \E dep_order \in {f \in [DOMAIN new_pkgs -> UNION {Perms(new_pkgs[p].deps)
                                                         : p \in DOMAIN new_pkgs}]
                          : \A p \in DOMAIN new_pkgs : f[p] \in Perms(new_pkgs[p].deps)} :
          LET diffs == sort_pkg_diffs(get_package_diffs(pkg_order, dep_order,
                                                        new_pkgs, old_pkgs))
          IN  pkg_diffs' = [i \in DOMAIN diffs |->
                               [diffs[i] EXCEPT !.deps =
                                   IF @ = <<>> THEN @ ELSE sort_store_diffs(@)]]
    /\ pc' = "printed_pkgs"
    /\ UNCHANGED <<new_stores, old_stores, diff_new, diff_old, store_diff,
                   store_diffs, new_pkgs, old_pkgs>>

\* get_store_diffs over the two shared sets and the sort of its result
CompareGlobalDeps ==
    /\ pc = "printed_pkgs"
    /\ \E order \in Perms(new_stores) :
          store_diffs' = sort_store_diffs(get_store_diffs(order, old_stores))
    /\ pc' = "done"
    /\ UNCHANGED <<new_stores, old_stores, diff_new, diff_old, store_diff,
                   new_pkgs, old_pkgs, pkg_diffs>>

CompareNext ==
    /\ \/ IsolateNew
       \/ IsolateOld
       \/ ComparePackages
       \/ CompareGlobalDeps
    /\ UNCHANGED <<partVars, uniqVars, listVars, buildVars, sortVars, saveVars,
                   parseVars, cmpVars>>

InitCompare ==
    CompareInit /\ PartIdle /\ UniqIdle /\ ListIdle /\ BuildIdle /\ SortIdle
                /\ SaveIdle /\ ParseIdle
SpecCompare == InitCompare /\ [][CompareNext]_vars

-----------------------------------------------------------------------------
(* Properties.                                                             *)

RecordsNamed(S, name) == {r \in S : r.name = name}
CountOf(seq, name) == Cardinality({i \in DOMAIN seq : seq[i].name = name})
AbsDiff(a, b) == IF a >= b THEN a - b ELSE b - a

\* the versions a dependency name has across the packages of map m
VersionsOf(m, name) ==
    {d.version : d \in RecordsNamed(UNION {m[p].deps : p \in DOMAIN m}, name)}

\* C1: once the partitioner has returned, no name of the returned shared set
\* is still in the dependency set of any package.
PartitionMutualExclusion ==
    pc = "done" =>
        \A p \in DOMAIN pkgs : Names(pkgs[p].deps) \cap Names(global_deps) = {}

\* the partitioner returned a non-empty shared set that it took out of a
\* package which keeps another dependency
PartitionMutualExclusionWitness ==
    /\ pc = "done"
    /\ global_deps # {}
    /\ \E p \in DOMAIN pkgs :
          /\ pkgs[p].deps # {}
          /\ pkgs[p].deps # input_pkgs[p].deps

\* C2: a dependency name is in the returned shared set iff it occurs in the
\* package map and every package depending on it has it at one version (the
\* shared record carrying that version); a name with two versions stays in
\* each of its packages at the original version.
PartitionCorrectness ==
    pc = "done" =>
        \A n \in DepNames :
            LET vs == VersionsOf(input_pkgs, n)
            IN  /\ (n \in Names(global_deps)) <=> (Cardinality(vs) = 1)
                /\ \A g \in RecordsNamed(global_deps, n) : g.version \in vs
                /\ Cardinality(RecordsNamed(global_deps, n)) <= 1
                /\ Cardinality(vs) > 1 =>
                       \A p \in DOMAIN pkgs :
                           RecordsNamed(pkgs[p].deps, n)
                               = RecordsNamed(input_pkgs[p].deps, n)

\* the scenario of test::separate_global_deps: three packages, db at two
\* versions stays per package, glibc at one version is the only shared entry
PartitionCorrectnessWitness ==
    /\ pc = "done"
    /\ Cardinality(DOMAIN pkgs) = 3
    /\ global_deps = {mkstore(EncodeName("glibc", None), "2.27")}
    /\ \A p \in DOMAIN pkgs : Names(pkgs[p].deps) = {EncodeName("db", None)}
    /\ Cardinality(VersionsOf(pkgs, EncodeName("db", None))) = 2

\* C3: the set-level diff holds exactly one Change for each name present in
\* both sets with different versions (from old's version to new's), and no
\* Change for any other name.
StoreDiffsExact ==
    pc = "diffed_set" =>
        /\ \A i \in DOMAIN store_diffs : store_diffs[i].name \in DiffNames
        /\ \A n \in DiffNames :
              LET nw == RecordsNamed(new_stores, n)
                  od == RecordsNamed(old_stores, n)
              IN  IF \E a \in nw, b \in od : a.version # b.version
                  THEN /\ CountOf(store_diffs, n) = 1
                       /\ \A i \in DOMAIN store_diffs :
                             store_diffs[i].name = n =>
                                 \E a \in nw, b \in od :
                                     store_diffs[i] = mkstorediff(n, b.version, a.version)
                  ELSE CountOf(store_diffs, n) = 0

\* a diff with one Change, an unchanged name, a name only in new and a name
\* only in old
StoreDiffsExactWitness ==
    /\ pc = "diffed_set"
    /\ Len(store_diffs) = 1
    /\ \E a \in new_stores : a \in old_stores
    /\ Names(new_stores) \ Names(old_stores) # {}
    /\ Names(old_stores) \ Names(new_stores) # {}

\* C4: the single-record diff of two records of one name yields no Change
\* exactly when the versions are equal, and otherwise the Change (new's name,
\* old's version, new's version).
StoreDiffSingle ==
    pc = "diffed_one" =>
        LET new == Unwrap(diff_new)
            old == Unwrap(diff_old)
        IN  new.name = old.name =>
                /\ (store_diff = None) <=> (new.version = old.version)
                /\ new.version # old.version =>
                       store_diff = Some(mkstorediff(new.name, old.version, new.version))

\* the single-record diff was applied to two versions of one name
StoreDiffSingleWitness ==
    /\ pc = "diffed_one"
    /\ Unwrap(diff_new).name = Unwrap(diff_old).name
    /\ Unwrap(diff_new).version # Unwrap(diff_old).version
    /\ IsSome(store_diff)

\* C5: records of one base name whose suffixes differ are never compared:
\* the single-record diff is only applied to records of equal suffix, and
\* when every new record of a base name differs in suffix from every old
\* record of it, the set-level diff holds no Change for that base name.
SuffixMismatchNoChange ==
    /\ pc = "diffed_one" =>
           SuffixOf(Unwrap(diff_new).name) = SuffixOf(Unwrap(diff_old).name)
    /\ pc = "diffed_set" =>
           \A b \in DiffBases :
               (\A n \in new_stores, o \in old_stores :
                    (BaseOf(n.name) = b /\ BaseOf(o.name) = b)
                        => SuffixOf(n.name) # SuffixOf(o.name))
               => \A i \in DOMAIN store_diffs : BaseOf(store_diffs[i].name) # b

\* new holds ffmpeg with suffix bin, old holds ffmpeg without a suffix at
\* another version, and the diff ran
SuffixMismatchNoChangeWitness ==
    /\ pc = "diffed_set"
    /\ \E n \in new_stores, o \in old_stores :
          /\ BaseOf(n.name) = "ffmpeg" /\ BaseOf(o.name) = "ffmpeg"
          /\ SuffixOf(n.name) = Some("bin") /\ SuffixOf(o.name) = None
          /\ n.version # o.version
    /\ \A n \in new_stores, o \in old_stores :
          BaseOf(n.name) = BaseOf(o.name) => SuffixOf(n.name) # SuffixOf(o.name)
    /\ store_diffs = <<>>

\* a dependency of the new package is in the old package at another version
HasDepChange(new_pkg, old_pkg) ==
    \E a \in new_pkg.deps, b \in old_pkg.deps :
        a.name = b.name /\ a.version # b.version

\* C6: the package-level diff holds an entry for p iff p is a key of both
\* maps and its primary version differs or one of its dependencies changed;
\* no entry has neither a primary Change nor a dependency Change.
PackageDiffsPresence ==
    pc = "diffed_pkgs" =>
        /\ \A i \in DOMAIN pkg_diffs :
              /\ pkg_diffs[i].name \in DiffPkgNames
              /\ ~(pkg_diffs[i].pkg = None /\ pkg_diffs[i].deps = <<>>)
        /\ \A p \in DiffPkgNames :
              /\ CountOf(pkg_diffs, p) <= 1
              /\ (CountOf(pkg_diffs, p) = 1) <=>
                     /\ p \in DOMAIN new_pkgs
                     /\ p \in DOMAIN old_pkgs
                     /\ \/ new_pkgs[p].path.version # old_pkgs[p].path.version
                        \/ HasDepChange(new_pkgs[p], old_pkgs[p])

\* one package is reported for a dependency change alone, the other is in
\* both maps, unchanged, and left out
PackageDiffsPresenceWitness ==
    /\ pc = "diffed_pkgs"
    /\ Len(pkg_diffs) = 1
    /\ pkg_diffs[1].pkg = None
    /\ DOMAIN new_pkgs = DiffPkgNames
    /\ DOMAIN old_pkgs = DiffPkgNames

\* C7: two rows of one name and one version with different suffixes are both
\* in the deduplicated set (the name having no other version among the rows).
SuffixVariantsBothKept ==
    pc = "done" =>
        \A i, j \in DOMAIN db_rows :
            (/\ db_rows[i].name = db_rows[j].name
             /\ db_rows[i].suffix # db_rows[j].suffix
             /\ \A k \in DOMAIN db_rows :
                   db_rows[k].name = db_rows[i].name
                       => db_rows[k].version = db_rows[i].version)
            => /\ \E u \in unique : u.name = db_rows[i].name
                                    /\ u.suffix = db_rows[i].suffix
               /\ \E u \in unique : u.name = db_rows[j].name
                                    /\ u.suffix = db_rows[j].suffix

\* C8: when two rows of one name have different versions and registration
\* times less than WINDOW apart, the name is absent from the result.
NearVersionsDropped ==
    pc = "done" =>
        \A i, j \in DOMAIN db_rows :
            (/\ db_rows[i].name = db_rows[j].name
             /\ db_rows[i].version # db_rows[j].version
             /\ AbsDiff(db_rows[i].register_time, db_rows[j].register_time) < WINDOW)
            => db_rows[i].name \notin Names(unique)

\* C9: when all rows of a name that differ in version are WINDOW or more
\* apart, the result keeps exactly one record of the name, a row with the
\* latest registration time.
FarVersionsKeepLatest ==
    pc = "done" =>
        \A n \in RowNames :
            LET R == {db_rows[i] : i \in {k \in DOMAIN db_rows : db_rows[k].name = n}}
            IN  (/\ R # {}
                 /\ \A a, b \in R :
                       a.version # b.version
                           => AbsDiff(a.register_time, b.register_time) >= WINDOW)
                => /\ Cardinality(RecordsNamed(unique, n)) = 1
                   /\ \A u \in RecordsNamed(unique, n) :
                         /\ u \in R
                         /\ \A r \in R : u.register_time >= r.register_time

\* a name was registered at two versions WINDOW or more apart and the
\* deduplicator kept it
FarVersionsKeepLatestWitness ==
    /\ pc = "done"
    /\ \E i, j \in DOMAIN db_rows :
          /\ db_rows[i].name = db_rows[j].name
          /\ db_rows[i].version # db_rows[j].version
          /\ db_rows[i].register_time - db_rows[j].register_time >= WINDOW
          /\ \A a, b \in DOMAIN db_rows :
                (db_rows[a].name = db_rows[i].name
                 /\ db_rows[b].name = db_rows[i].name
                 /\ db_rows[a].version # db_rows[b].version)
                => AbsDiff(db_rows[a].register_time, db_rows[b].register_time) >= WINDOW
          /\ db_rows[i] \in unique

\* the lines a command-output loop reads
LinesRead ==
    IF list_op = "parse_system_stores" THEN listing
    ELSE IF IsSome(self_path) THEN CutAtLastNix(listing, nix_cut)
    ELSE <<>>

\* the versions a name is listed with
ListedVersions(lines, name) ==
    {Unwrap(lines[i]).version :
        i \in {k \in DOMAIN lines : IsSome(lines[k]) /\ Unwrap(lines[k]).name = name}}

\* C10: on the command-output path (parse_system_stores and parse_deps) a
\* name listed with two different versions is absent from the resulting set;
\* neither version is kept.
ListedTwiceDropped ==
    pc = "done" =>
        \A n \in ListNames :
            Cardinality(ListedVersions(LinesRead, n)) > 1 => n \notin Names(stores)

\* C11: every package the dependency set builder returns has a dependency
\* set without a record of the name of the package's primary record.
DepsExcludePrimaryName ==
    (pc = "done" /\ build_result = "ok") =>
        /\ \A n \in DOMAIN packages :
              packages[n].path.name \notin Names(packages[n].deps)
        /\ \A d \in derivations : d.store.name \notin Names(d.deps)

\* a closure lookup the builder ran has failed: on the command path
\* nix-store is run for a store that has a path, on the database path the
\* Refs query is run for every store the loop reaches
LookupFailed ==
    IF build_op = "parse_system_packages"
    THEN \E s \in build_stores :
            /\ s.name \in built
            /\ IsSome(s.path)
            /\ ~IsSome(lookup[s.name])
    ELSE \E k \in DOMAIN lookup : ~IsSome(lookup[k])

\* C12: when the closure lookup of one store fails, the builder returns an
\* error.
LookupFailureAborts ==
    (pc = "done" /\ LookupFailed) => build_result = "err"

\* Ordering::reverse
ReverseOrdering(o) ==
    IF o = "Less" THEN "Greater" ELSE IF o = "Greater" THEN "Less" ELSE "Equal"

\* the PackageDiffs handed to the sort
SortedElems == {sort_input[i] : i \in DOMAIN sort_input}

\* C13: once detect_package_diff has sorted, the PackageDiffs with a primary
\* Change come before those without, inside a kind the number of dependency
\* Changes never increases, ties are in ascending name order, nothing is lost;
\* once the print loop is over the dependency Changes of every PackageDiff are
\* in ascending name order; and on the PackageDiffs handed to the sort
\* sys_pkg_sorter is antisymmetric, transitive and Equal only on one and the
\* same PackageDiff.
SortedPackageDiffs ==
    /\ pc \in {"print", "done"} =>
          /\ {sorted_diffs[i].name : i \in DOMAIN sorted_diffs}
                 = {d.name : d \in SortedElems}
          /\ Len(sorted_diffs) = Len(sort_input)
          /\ \A i, j \in DOMAIN sorted_diffs :
                i < j =>
                    LET a == sorted_diffs[i]
                        b == sorted_diffs[j]
                    IN  /\ IsSome(b.pkg) => IsSome(a.pkg)
                        /\ IsSome(a.pkg) = IsSome(b.pkg) =>
                               /\ Len(a.deps) >= Len(b.deps)
                               /\ Len(a.deps) = Len(b.deps) =>
                                      CmpName(a.name, b.name) = "Less"
    /\ pc = "done" =>
          \A k \in DOMAIN sorted_diffs :
              /\ \A i, j \in DOMAIN sorted_diffs[k].deps :
                    i < j => CmpName(sorted_diffs[k].deps[i].name,
                                     sorted_diffs[k].deps[j].name) = "Less"
              /\ \E d \in SortedElems :
                    /\ d.name = sorted_diffs[k].name
                    /\ d.pkg = sorted_diffs[k].pkg
                    /\ {d.deps[i] : i \in DOMAIN d.deps}
                          = {sorted_diffs[k].deps[i] : i \in DOMAIN sorted_diffs[k].deps}
    /\ pc = "sort" =>
          /\ \A a, b \in SortedElems :
                /\ sys_pkg_sorter(a, b) = ReverseOrdering(sys_pkg_sorter(b, a))
                /\ (sys_pkg_sorter(a, b) = "Equal") <=> (a = b)
          /\ \A a, b, c \in SortedElems :
                (sys_pkg_sorter(a, b) = "Less" /\ sys_pkg_sorter(b, c) = "Less")
                    => sys_pkg_sorter(a, c) = "Less"

\* three PackageDiffs were sorted: the first has a primary Change, the last
\* has none, two of them tie on kind and count, the sort moved the first one
\* and a dependency list was put in order
SortedPackageDiffsWitness ==
    /\ pc = "done"
    /\ Len(sorted_diffs) = 3
    /\ IsSome(sorted_diffs[1].pkg)
    /\ ~IsSome(sorted_diffs[3].pkg)
    /\ \E i \in 1..2 :
          /\ IsSome(sorted_diffs[i].pkg) = IsSome(sorted_diffs[i + 1].pkg)
          /\ Len(sorted_diffs[i].deps) = Len(sorted_diffs[i + 1].deps)
    /\ sort_input[1].name # sorted_diffs[1].name
    /\ \E k \in DOMAIN sort_input :
          /\ Len(sort_input[k].deps) = 2
          /\ CmpName(sort_input[k].deps[1].name, sort_input[k].deps[2].name) = "Greater"

\* the (name, version) pairs of a set of records
NameVersionPairs(S) == {<<r.name, r.version>> : r \in S}

\* C14: the map read back from the saved file has the package names of the
\* saved map, and each package has the primary name and version and the
\* dependency (name, version) pairs it was saved with; the package-level diff
\* of any new map against the map read back is the diff against the saved map.
SaveLoadRoundTrip ==
    pc = "loaded" =>
        /\ DOMAIN loaded_pkgs = DOMAIN save_pkgs
        /\ \A n \in DOMAIN save_pkgs :
              /\ loaded_pkgs[n].path.name = save_pkgs[n].path.name
              /\ loaded_pkgs[n].path.version = save_pkgs[n].path.version
              /\ NameVersionPairs(loaded_pkgs[n].deps)
                    = NameVersionPairs(save_pkgs[n].deps)
              /\ IsStoreSet(loaded_pkgs[n].deps)
        /\ \A new \in DiffPackageMaps :
           \A pkg_order \in Perms(DOMAIN new) :
              LET dep_order == [p \in DOMAIN new |->
                                   CHOOSE o \in Perms(new[p].deps) : TRUE]
              IN  get_package_diffs(pkg_order, dep_order, new, loaded_pkgs)
                      = get_package_diffs(pkg_order, dep_order, new, save_pkgs)

\* two packages with dependencies were saved and read back, the paths gone
SaveLoadRoundTripWitness ==
    /\ pc = "loaded"
    /\ Cardinality(DOMAIN loaded_pkgs) = 2
    /\ \E n \in DOMAIN loaded_pkgs :
          /\ Cardinality(loaded_pkgs[n].deps) = 2
          /\ loaded_pkgs[n].path.path = None
          /\ IsSome(save_pkgs[n].path.path)
          /\ \E m \in DOMAIN loaded_pkgs :
                loaded_pkgs[m].path.version # loaded_pkgs[n].path.version

\* the string a parser splits: the raw path after the hash and its '-'
Stripped == SliceFrom(raw_path, PREFIX_LEN)

\* the fragments of the stripped string
Fragments == Split(Stripped)

\* the index of the '|' of a StorePath name, 0 when it has none
BarIndex(name) ==
    IF \E i \in DOMAIN name : name[i] = "|"
    THEN CHOOSE i \in DOMAIN name : name[i] = "|"
    ELSE 0

\* name and suffix of the accepted record, whichever parser built it
ParsedName ==
    LET name == Unwrap(parsed).name
    IN  IF parse_op = "Store::parse" \/ BarIndex(name) = 0 THEN name
        ELSE SubSeq(name, 1, BarIndex(name) - 1)
ParsedSuffix ==
    LET name == Unwrap(parsed).name
    IN  IF parse_op = "Store::parse" THEN Unwrap(parsed).suffix
        ELSE IF BarIndex(name) = 0 THEN None
        ELSE Some(SubSeq(name, BarIndex(name) + 1, Len(name)))

\* the tests the parser that ran applies to a fragment
RanIsVersionStr(f) ==
    IF parse_op = "Store::parse" THEN Store_is_version_str(f)
    ELSE StorePath_is_version_str(f)
RanIsSuffix(f) ==
    IF parse_op = "Store::parse" THEN Store_is_suffix(f) ELSE StorePath_is_suffix(f)

\* the fragments left once the parser that ran has set the suffix aside
NonSuffixFragments ==
    IF RanIsSuffix(Fragments[Len(Fragments)])
    THEN SubSeq(Fragments, 1, Len(Fragments) - 1)
    ELSE Fragments

\* the result of the general path when the scan for the version looks at the
\* fragments from index `first` on (1 is fragment 0)
VersionScanFrom(first) ==
    LET rest  == NonSuffixFragments
        cands == {k \in DOMAIN rest : k >= first /\ RanIsVersionStr(rest[k])}
    IN  IF cands = {} THEN parsed = None
        ELSE LET k == CHOOSE m \in cands : \A n \in cands : m <= n
             IN  /\ IsSome(parsed)
                 /\ ParsedName = Join(SubSeq(rest, 1, k - 1))
                 /\ Unwrap(parsed).version = Join(SubSeq(rest, k, Len(rest)))

\* C15 as stated: in the general path the version starts at the first
\* non-suffix fragment, counting from fragment 0, that looks like a version;
\* the name is the fragments before it, the version that fragment and the
\* non-suffix fragments after it; without such a fragment the string is
\* rejected.
VersionStartsAtFirstCandidate ==
    (pc = "parsed" /\ Len(Fragments) >= 3) => VersionScanFrom(1)

\* C15, amended: Store::parse never looks at fragment 0, which is always part
\* of the name: its version starts at the first version-like fragment after
\* fragment 0; StorePath::parse counts from fragment 0.
VersionStartsAfterFragmentZero ==
    (pc = "parsed" /\ Len(Fragments) >= 3) =>
        IF parse_op = "Store::parse" THEN VersionScanFrom(2) ELSE VersionScanFrom(1)

\* Store::parse accepted a string of three fragments whose fragment 0 looks
\* like a version and kept fragment 0 as the name
VersionStartsAfterFragmentZeroWitness ==
    /\ pc = "parsed"
    /\ parse_op = "Store::parse"
    /\ Len(Fragments) = 3
    /\ Store_is_version_str(Fragments[1])
    /\ IsSome(parsed)
    /\ Unwrap(parsed).name = Fragments[1]
    /\ IsSome(Unwrap(parsed).suffix)

\* a fragment that looks like a version as C16 words it
LooksLikeVersion(f) ==
    /\ f # <<>>
    /\ \/ is_ascii_digit(f[1])
       \/ f[1] = "v" /\ Len(f) >= 2 /\ is_ascii_digit(f[2])
    /\ \A i \in 2..Len(f) :
          is_ascii_digit(f[i]) \/ f[i] \in LowerLetters \/ f[i] \in {".", "_"}

\* C16: the parser that ran takes a fragment for a version candidate iff the
\* fragment starts with a digit, or with 'v' and a digit, and goes on with
\* digits, lowercase letters, '.' and '_' only; in the general path the
\* version of an accepted record never starts with a fragment that is 'v'
\* alone or 'v' and a non-digit.
VersionCandidateRule ==
    pc = "parsed" =>
        /\ \A k \in DOMAIN Fragments :
              RanIsVersionStr(Fragments[k]) <=> LooksLikeVersion(Fragments[k])
        /\ (Len(Fragments) >= 3 /\ IsSome(parsed)) =>
              LET first == Split(Unwrap(parsed).version)[1]
              IN  ~(first[1] = "v" /\ (Len(first) < 2 \/ ~is_ascii_digit(first[2])))

\* C17 as stated: in the general path the last fragment is the suffix of an
\* accepted record iff every character of it is alphabetic, so a suffix
\* holds alphabetic characters only.
SuffixIffAlphabetic ==
    (pc = "parsed" /\ Len(Fragments) >= 3 /\ IsSome(parsed)) =>
        LET last == Fragments[Len(Fragments)]
        IN  /\ IsSome(ParsedSuffix) <=> (\A i \in DOMAIN last : is_alphabetic(last[i]))
            /\ IsSome(ParsedSuffix) =>
                  /\ Unwrap(ParsedSuffix) = last
                  /\ \A i \in DOMAIN last : is_alphabetic(last[i])

\* C17, amended: in the general path Store::parse takes the last fragment as
\* the suffix iff it holds no digit (it may hold '.' or '_'), StorePath::parse
\* iff every character of it is alphabetic; the suffix of an accepted record
\* is the last fragment and holds no digit, so an all-digit last fragment is
\* never a suffix.
SuffixIffDigitFree ==
    (pc = "parsed" /\ Len(Fragments) >= 3 /\ IsSome(parsed)) =>
        LET last == Fragments[Len(Fragments)]
        IN  /\ IsSome(ParsedSuffix) <=>
                  IF parse_op = "Store::parse"
                  THEN ~\E i \in DOMAIN last : is_ascii_digit(last[i])
                  ELSE \A i \in DOMAIN last : is_alphabetic(last[i])
            /\ IsSome(ParsedSuffix) =>
                  /\ Unwrap(ParsedSuffix) = last
                  /\ ~\E i \in DOMAIN last : is_ascii_digit(last[i])

\* Store::parse took a last fragment with a '.' in it as the suffix
SuffixIffDigitFreeWitness ==
    /\ pc = "parsed"
    /\ parse_op = "Store::parse"
    /\ Len(Fragments) >= 3
    /\ IsSome(parsed)
    /\ IsSome(Unwrap(parsed).suffix)
    /\ \E i \in DOMAIN Unwrap(Unwrap(parsed).suffix) :
          Unwrap(Unwrap(parsed).suffix)[i] = "."

\* C18: a stripped string of fewer than 2 fragments is rejected; one of
\* exactly 2 fragments is accepted iff fragment 1 holds a digit, with fragment
\* 0 as the name, fragment 1 as the version and no suffix.
TwoFragmentRule ==
    pc = "parsed" =>
        /\ Len(Fragments) < 2 => parsed = None
        /\ Len(Fragments) = 2 =>
              IF \E i \in DOMAIN Fragments[2] : is_ascii_digit(Fragments[2][i])
              THEN /\ IsSome(parsed)
                   /\ Unwrap(parsed).name = Fragments[1]
                   /\ Unwrap(parsed).version = Fragments[2]
                   /\ ParsedSuffix = None
              ELSE parsed = None

\* C19: no step removes a dependency, or hands one to a worker, before the
\* scan has visited every package; no scan step follows a removal; and from
\* the first removal on the names to extract and the scan table stay as they
\* are.
ScanBeforeRemoval ==
    [][/\ (pkgs' # pkgs \/ folded' # folded \/ acc' # acc) =>
             /\ scanned = DOMAIN pkgs
             /\ dep_names = UniformNames(ver_tracker)
             /\ dep_names' = dep_names
       /\ (scanned' # scanned \/ ver_tracker' # ver_tracker) =>
             /\ folded = {}
             /\ pkgs = input_pkgs
       /\ folded # {} => (dep_names' = dep_names /\ ver_tracker' = ver_tracker)]_vars

\* the scan has visited three packages and the removal has then taken a
\* dependency out of one of them
ScanBeforeRemovalWitness ==
    /\ pc = "fold"
    /\ Cardinality(scanned) = 3
    /\ Cardinality(folded) = 1
    /\ pkgs # input_pkgs
    /\ dep_names # {}

\* the records the partitioner extracts from map m: every dependency whose
\* name has one version across m
SharedRecords(m) ==
    {d \in UNION {m[p].deps : p \in DOMAIN m} :
        Cardinality(VersionsOf(m, d.name)) = 1}

\* C20: whatever the split of the packages among the workers and the order
\* of the merges, once every package is folded the accumulators hold between
\* them the records the input determines, every package is left with the
\* dependencies the input determines, and the returned set is that set.
FoldReduceDeterministic ==
    /\ (pc = "fold" /\ folded = DOMAIN pkgs) =>
          /\ UNION {acc[w] : w \in Workers} = SharedRecords(input_pkgs)
          /\ \A p \in DOMAIN pkgs :
                pkgs[p].deps = input_pkgs[p].deps \ SharedRecords(input_pkgs)
    /\ pc = "done" =>
          /\ global_deps = SharedRecords(input_pkgs)
          /\ \A p \in DOMAIN pkgs :
                pkgs[p].deps = input_pkgs[p].deps \ SharedRecords(input_pkgs)

\* every package is folded, the two workers hold different accumulators that
\* are not empty and share a record, and no merge has run yet
FoldReduceDeterministicWitness ==
    /\ pc = "fold"
    /\ folded = DOMAIN pkgs
    /\ merged = {}
    /\ acc[1] # {} /\ acc[2] # {}
    /\ acc[1] # acc[2]
    /\ acc[1] \cap acc[2] # {}

\* the inputs that differ from rows only in the order of the rows whose
\* registration times are equal
TieReorderings(rows) ==
    {[i \in DOMAIN rows |-> rows[q[i]]] :
        q \in {p \in Perms(DOMAIN rows) :
                  \A i \in DOMAIN rows :
                      rows[p[i]].register_time = rows[i].register_time}}

\* C21: the set get_unique returns for rows in descending registration-time
\* order is the set it returns for every reordering of the rows whose
\* registration times are equal.
TieOrderIndependent ==
    pc = "done" => \A other \in TieReorderings(db_rows) : get_unique(other) = unique

\* C22: the record parse_system_stores holds for a name has the greatest of
\* the versions the name is listed with, in whatever order they are listed.
LatestVersionKept ==
    (pc = "done" /\ list_op = "parse_system_stores") =>
        \A n \in ListNames :
            /\ ListedVersions(listing, n) # {} => RecordsNamed(stores, n) # {}
            /\ \A r \in RecordsNamed(stores, n) :
                  /\ r.version \in ListedVersions(listing, n)
                  /\ \A v \in ListedVersions(listing, n) :
                        ~VersionGreater(v, r.version)

\* the number of characters of raw_path ahead of its first '-' (all of them
\* when it has none)
LeadingNoDash ==
    Cardinality({i \in DOMAIN raw_path : \A j \in 1..i : raw_path[j] # "-"})

\* what is left of raw_path after its first '-': None when it has no '-' or
\* nothing follows the '-'
AfterFirstDash ==
    IF LeadingNoDash + 1 < Len(raw_path)
    THEN Some([k \in 1..(Len(raw_path) - LeadingNoDash - 1)
                 |-> raw_path[LeadingNoDash + 1 + k]])
    ELSE None

\* the input is longer than a store path's prefix and has a '-' where the
\* prefix of a store path ends
HasPrefixDash == Len(raw_path) > PREFIX_LEN /\ raw_path[PREFIX_LEN] = "-"

\* C23 as stated: both stripping functions return the part of the input
\* after its first '-', and reject an input with no '-' or with nothing after
\* it.
StripAfterFirstDash ==
    pc = "stripped" => parsed = AfterFirstDash

\* C23, amended: StorePath::strip returns the part after the first '-' and
\* rejects an input with no '-' or with nothing after it; Store::strip_prefix
\* does the same, except that for an input longer than PREFIX_LEN with a '-'
\* at DASH_POS it returns the part after DASH_POS.
StripAfterPrefixOrFirstDash ==
    pc = "stripped" =>
        IF parse_op = "Store::strip_prefix" /\ HasPrefixDash
        THEN /\ IsSome(parsed)
             /\ Len(Unwrap(parsed)) = Len(raw_path) - PREFIX_LEN
             /\ \A k \in DOMAIN Unwrap(parsed) :
                   Unwrap(parsed)[k] = raw_path[PREFIX_LEN + k]
        ELSE parsed = AfterFirstDash

\* Store::strip_prefix took the '-' at DASH_POS of an input whose first '-'
\* comes earlier
StripAfterPrefixOrFirstDashWitness ==
    /\ pc = "stripped"
    /\ parse_op = "Store::strip_prefix"
    /\ HasPrefixDash
    /\ \E i \in 1..DASH_POS : raw_path[i] = "-"
    /\ parsed # AfterFirstDash
    /\ Len(Unwrap(parsed)) >= 3

\* C24: the partitioner never changes the package keys or a primary record
\* and never adds a dependency; once it has returned, every dependency whose
\* name is not in the shared set is still in its package at its version, and
\* every dependency that left a package is in the shared set with its name
\* and version.
PartitionFrame ==
    /\ DOMAIN pkgs = DOMAIN input_pkgs
    /\ \A p \in DOMAIN pkgs :
          /\ pkgs[p].path = input_pkgs[p].path
          /\ pkgs[p].deps \subseteq input_pkgs[p].deps
    /\ pc = "done" =>
          \A p \in DOMAIN pkgs :
              \A d \in input_pkgs[p].deps :
                  /\ d.name \notin Names(global_deps) => d \in pkgs[p].deps
                  /\ d \notin pkgs[p].deps =>
                        \E g \in global_deps :
                            g.name = d.name /\ g.version = d.version

\* the partitioner returned after taking dependencies out of two packages,
\* one of which keeps a dependency whose name is not shared
PartitionFrameWitness ==
    /\ pc = "done"
    /\ Cardinality(DOMAIN pkgs) >= 2
    /\ \E p, q \in DOMAIN pkgs :
          /\ p # q
          /\ pkgs[p].deps # input_pkgs[p].deps
          /\ pkgs[q].deps # input_pkgs[q].deps
          /\ pkgs[q].deps # {}
          /\ Names(pkgs[q].deps) \cap Names(global_deps) = {}

\* the name occurs in the snapshot m and every package of m that depends on
\* it has it at one version
SharedIn(m, n) == Cardinality(VersionsOf(m, n)) = 1

\* the name is a dependency of package p of the snapshot m and m holds it at
\* several versions
PerPackageIn(m, p, n) ==
    /\ p \in DOMAIN m
    /\ n \in Names(m[p].deps)
    /\ Cardinality(VersionsOf(m, n)) > 1

\* the Changes of a list of Changes that carry the name n
ChangesOf(diffs, n) == {i \in DOMAIN diffs : diffs[i].name = n}

\* C25: in detect_package_diff the shared-dependency diff holds a Change of
\* a name only if the name is shared in the new and in the old snapshot, a
\* package's dependency diff holds a Change of a name only if the name is
\* per-package in that package in both snapshots, and a name shared in one
\* snapshot and not in the other has no Change in any list.
CrossCategoryNoChange ==
    pc = "done" =>
        /\ \A i \in DOMAIN store_diffs :
              /\ SharedIn(new_snapshot, store_diffs[i].name)
              /\ SharedIn(old_snapshot, store_diffs[i].name)
        /\ \A i \in DOMAIN pkg_diffs :
              \A j \in DOMAIN pkg_diffs[i].deps :
                  /\ PerPackageIn(new_snapshot, pkg_diffs[i].name,
                                  pkg_diffs[i].deps[j].name)
                  /\ PerPackageIn(old_snapshot, pkg_diffs[i].name,
                                  pkg_diffs[i].deps[j].name)
        /\ \A n \in DepNames :
              SharedIn(new_snapshot, n) # SharedIn(old_snapshot, n) =>
                  /\ ChangesOf(store_diffs, n) = {}
                  /\ \A i \in DOMAIN pkg_diffs : ChangesOf(pkg_diffs[i].deps, n) = {}

\* a dependency is shared in the new snapshot and per-package in the old
\* one, a package has it at different versions in the two, and the
\* comparison reports a Change of another name
CrossCategoryNoChangeWitness ==
    /\ pc = "done"
    /\ \E n \in DepNames :
          /\ SharedIn(new_snapshot, n)
          /\ \E p \in DOMAIN new_snapshot :
                /\ PerPackageIn(old_snapshot, p, n)
                /\ \E d \in new_snapshot[p].deps, e \in old_snapshot[p].deps :
                      d.name = n /\ e.name = n /\ d.version # e.version
    /\ \E i \in DOMAIN pkg_diffs : pkg_diffs[i].deps # <<>>

\* C26: applied to the package map it has left behind, the partitioner
\* returns an empty shared set and takes nothing out of any package, in
\* whatever order the second application visits the packages.
PartitionIdempotent ==
    pc = "done" =>
        LET orders == Perms(DOMAIN pkgs)
            \* dep_names of the second application, one set per scan order
            again == {isolate_dep_names(pkgs, scan_order) : scan_order \in orders}
        IN  /\ again = {{}}
            /\ \A scan_order \in orders : isolate_pkgs(pkgs, scan_order) = pkgs
            \* isolate_gdeps depends on the scan order through dep_names only
            /\ \A names \in again, fold_order \in orders :
                  fold_reduce({}, pkgs, fold_order, names) = {}

\* the partitioner returned a shared set and left two packages with
\* dependencies for a second application to scan
PartitionIdempotentWitness ==
    /\ pc = "done"
    /\ global_deps # {}
    /\ Cardinality({p \in DOMAIN pkgs : pkgs[p].deps # {}}) >= 2
    /\ \A scan_order, fold_order \in Perms(DOMAIN input_pkgs) :
          isolate_gdeps(input_pkgs, scan_order, fold_order) = global_deps

\* name + '-' + version, and '-' + suffix when there is one
Rebuilt(store) ==
    store.name \o <<"-">> \o store.version
        \o (IF IsSome(store.suffix) THEN <<"-">> \o Unwrap(store.suffix) ELSE <<>>)

\* C27: every slice Store::parse takes has its start at or before its end
\* and its end inside the string, whether the input is accepted or not; and
\* the fields of an accepted input rebuild the stripped input.
StoreParseRebuilds ==
    (pc = "parsed" /\ parse_op = "Store::parse") =>
        /\ \A sl \in Store_parse_slices(raw_path) :
              0 <= sl.from /\ sl.from <= sl.to /\ sl.to <= sl.len
        /\ IsSome(parsed) => Rebuilt(Unwrap(parsed)) = Stripped

\* Store::parse accepted a path with a name of two fragments, a version and
\* a suffix
StoreParseRebuildsWitness ==
    /\ pc = "parsed"
    /\ parse_op = "Store::parse"
    /\ IsSome(parsed)
    /\ IsSome(Unwrap(parsed).suffix)
    /\ Unwrap(Unwrap(parsed).suffix) # <<>>
    /\ \E i \in DOMAIN Unwrap(parsed).name : Unwrap(parsed).name[i] = "-"
    /\ Cardinality(Store_parse_slices(raw_path)) >= 4

====
